---- MODULE Spec2Model ----
(***************************************************************************)
(* Scene sequencing of the C2W2 virtual runway viewer: SequenceManager,    *)
(* ModelLoader, UIManager, CameraManager, AudioManager and the Application *)
(* event wiring, as a state machine whose actions are the browser's        *)
(* macrotasks (a click handler, a loader callback, the page reload), each  *)
(* run to completion together with the promise continuations it triggers. *)
(***************************************************************************)
EXTENDS Integers, Sequences, FiniteSets, TLC

VARIABLES
    currentScene,      \* SequenceManager.currentScene
    isVR,              \* SequenceManager.isVR (copied by value at construction)
    experienceStarted, \* Application.experienceStarted
    loadedModels,      \* ModelLoader.loadedModels (the scene graph holds the same entries)
    colliderMeshes,    \* ModelLoader.colliderMeshes
                       \* (both are arrays whose order no code path reads: kept as the
                       \* sets of their entries, which are distinct)
    pendingLoads,      \* GLTFLoader requests whose callback has not run yet
    ui,                \* UIManager's DOM elements
    cam,               \* CameraManager: cameras and controls
    soundBuffers,      \* AudioManager.soundBuffers
    activeSounds,      \* AudioManager.activeSounds
    calls,             \* the promise of each runNextScene call, by the step it entered
    reloadRequested,   \* window.location.reload() called, navigation not committed yet
    hist,              \* history of the requests and faults so far: read by the
                       \* properties and by the bounds, never by the program
    applicationIsVR,   \* Application.isVR
    keys,              \* PhysicsManager.keys
    playerVelocity,    \* PhysicsManager.playerVelocity
    playerOnFloor,     \* PhysicsManager.playerOnFloor
    currentMoveSpeed,  \* PhysicsManager.currentMoveSpeed
    colliderField,     \* the geometry of the meshes in colliderMeshes
    ticks,             \* movement ticks run since the page loaded (bounded)
    lastEvent,         \* the last frame drawn: read by the properties only
    detected,          \* checkVRCapability: "pending", then "desktop" or "vr"
    presenting,        \* renderer.xr.isPresenting
    vrControllers,     \* Application.vrControllers: the userData of each controller
    gamepads,          \* the sticks and triggers of the XR input sources
    rigYaw,            \* playerRig's rotation about the vertical axis
    soundUrls,         \* APP_CONFIG.assets.sounds: the url of each slot, if any
    soundLoads,        \* AudioLoader requests: "none", "pending", "loaded", "failed"
    soundsPromise,     \* the promise loadAllSounds returned
    fadingSounds,      \* sounds fadeOut released whose setTimeout has not fired yet
    composerCamera     \* the camera of the composer's RenderPass and SSAOPass

\* the state of the player simulation (the player's position is the position
\* of the perspective camera, cam.position["perspective"])
physVars == <<applicationIsVR, keys, playerVelocity, playerOnFloor,
              currentMoveSpeed, ticks, lastEvent>>

\* the state of a VR session
vrVars == <<detected, presenting, vrControllers, gamepads, rigYaw>>

\* the state of the sound downloads
audioVars == <<soundUrls, soundLoads, soundsPromise, fadingSounds>>

vars == <<currentScene, isVR, experienceStarted, loadedModels, colliderMeshes,
          pendingLoads, ui, cam, soundBuffers, activeSounds, calls,
          reloadRequested, hist, applicationIsVR, keys, playerVelocity,
          playerOnFloor, currentMoveSpeed, colliderField, ticks, lastEvent,
          detected, presenting, vrControllers, gamepads, rigYaw,
          soundUrls, soundLoads, soundsPromise, fadingSounds, composerCamera>>

----------------------------------------------------------------------------
(* Bounds of the model *)

\* runNextScene is not called any more once the index has reached MaxScene
MaxScene == 7
\* handleVariantClick is called with indices 0..MaxVariantIndex
MaxVariantIndex == 6
\* between two page loads at most this many faults happen: a fault is an asset
\* load that fails or a click on the start button while a step is in flight
MaxFaults == 2
\* between two page loads at most this many movement ticks run
MaxTicks == 3
\* fade-outs whose timers may be outstanding at once
MaxFading == 2

----------------------------------------------------------------------------
(* Optional values: an absent config field is <<>>, a present one <<v>> *)

None == <<>>
Some(v) == <<v>>
OrElse(opt, default) == IF opt = None THEN default ELSE opt[1]

\* a || b of JavaScript for numbers and booleans: 0 and false are falsy
OrNum(opt, default) == IF opt = None \/ opt = Some(0) THEN default ELSE opt[1]
OrBool(opt, default) == IF opt = None \/ opt = Some(FALSE) THEN default ELSE opt[1]

\* { x, y, z } written in tenths of a unit; kept in thousandths
Vec(x, y, z) == <<100 * x, 100 * y, 100 * z>>

----------------------------------------------------------------------------
(* APP_CONFIG *)

NoSceneFields ==
    [models |-> <<>>, cameraType |-> None, autoRotate |-> None,
     autoRotateSpeed |-> None, enableUserRotation |-> None, enableZoom |-> None,
     enablePan |-> None, cameraPosition |-> None, cameraLookAt |-> None,
     buttons |-> None, cameraPositions |-> None]

Scene0 ==
    [NoSceneFields EXCEPT
       !.models = <<0, 4>>, !.cameraType = Some("orthographic"),
       !.autoRotate = Some(TRUE), !.autoRotateSpeed = Some(10),
       !.enableUserRotation = Some(FALSE), !.enableZoom = Some(FALSE),
       !.enablePan = Some(FALSE),
       !.cameraPosition = Some(Vec(0, 200, 150)),
       !.cameraLookAt = Some(Vec(0, 10, 0))]

Scene1 ==
    [NoSceneFields EXCEPT
       !.models = <<0, 4>>, !.cameraType = Some("orthographic"),
       !.autoRotate = Some(TRUE), !.autoRotateSpeed = Some(10),
       !.enableUserRotation = Some(TRUE), !.enableZoom = Some(TRUE),
       !.enablePan = Some(FALSE),
       !.cameraPosition = Some(Vec(0, 300, 150)),
       !.cameraLookAt = Some(Vec(0, 40, 0)),
       !.buttons = Some(<<"Surrounding", "Transportation", "Units">>)]

Scene2 ==
    [NoSceneFields EXCEPT
       !.models = <<0, 3, 2, 4>>, !.cameraType = Some("orthographic"),
       !.autoRotate = Some(TRUE), !.autoRotateSpeed = Some(10),
       !.enableUserRotation = Some(TRUE), !.enableZoom = Some(TRUE),
       !.enablePan = Some(FALSE),
       !.cameraPosition = Some(Vec(0, 300, 150)),
       !.cameraLookAt = Some(Vec(0, 40, 0)),
       !.buttons = Some(<<"Option 1 (M1+M4)", "Option 2 (M3+M5)">>)]

Scene3 ==
    [NoSceneFields EXCEPT
       !.models = <<2, 5>>, !.cameraType = Some("orthographic"),
       !.autoRotate = Some(FALSE),
       !.enableUserRotation = Some(TRUE), !.enableZoom = Some(TRUE),
       !.enablePan = Some(FALSE),
       !.cameraPosition = Some(Vec(150, 80, -150)),
       !.cameraLookAt = Some(Vec(0, 40, 0))]

Scene4 ==
    [NoSceneFields EXCEPT
       !.models = <<6>>, !.cameraType = Some("perspective"),
       !.autoRotate = Some(FALSE),
       !.enableUserRotation = Some(TRUE), !.enableZoom = Some(TRUE),
       !.enablePan = Some(FALSE),
       !.buttons = Some(<<"Salon", "Bathroom", "Bedroom 1", "Bedroom 1 WC",
                          "Bedroom 2", "Bedroom 2 WC">>),
       !.cameraPositions = Some(<<
          [pos |-> Vec(10, 16, 16),  lookAt |-> Vec(10, 16, 15),  fov |-> 80],
          [pos |-> Vec(-20, 16, 31), lookAt |-> Vec(-21, 16, 32), fov |-> 80],
          [pos |-> Vec(-20, 16, 0),  lookAt |-> Vec(-21, 16, -1), fov |-> 80],
          [pos |-> Vec(-20, 16, 21), lookAt |-> Vec(-21, 16, 22), fov |-> 80],
          [pos |-> Vec(44, 16, 0),   lookAt |-> Vec(45, 16, -1),  fov |-> 80],
          [pos |-> Vec(39, 16, 37),  lookAt |-> Vec(40, 16, 38),  fov |-> 80]>>)]

Scene5 ==
    [NoSceneFields EXCEPT
       !.models = <<6, 7>>, !.cameraType = Some("perspective"),
       !.cameraPosition = Some(Vec(14, 16, -6))]

\* APP_CONFIG.scenes: the keys 0..5
SceneKeys == 0..5
Scenes == <<Scene0, Scene1, Scene2, Scene3, Scene4, Scene5>>

\* APP_CONFIG.scenes[n]: None where the catalog has no entry
SceneConfig(n) == IF n \in SceneKeys THEN Some(Scenes[n + 1]) ELSE None

\* APP_CONFIG.assets.models: what the catalog calls the asset at each index
AssetNames ==
    [i \in 0..7 |->
        <<"City", "Ghost", "Metal", "White Facade", "Kopuk", "Interior City",
          "Interior", "Collider">>[i + 1]]

\* APP_CONFIG.assets.sounds: every slot is null
SoundUrls == [i \in 0..5 |-> None]

----------------------------------------------------------------------------
(* UIManager.  A style.display of 'block' is TRUE, of 'none' is FALSE; a    *)
(* content panel holds the id of the template copied into it, "" when empty *)

\* the six toggle buttons, modelToggleBtn1..6
ToggleCount == 6

\* the elements as the page first shows them: the loading screen up, every
\* element the managers show later still hidden (the stylesheet's defaults)
InitToggle == [text |-> "", display |-> FALSE, selected |-> FALSE]

InitUI ==
    [loading |-> TRUE, sceneLoading |-> FALSE, backgroundImg |-> FALSE,
     instructions |-> FALSE, startButton |-> FALSE, startText |-> "",
     modelLabel |-> FALSE, toggles |-> [i \in 1..ToggleCount |-> InitToggle],
     leftPanel |-> "", rightPanel |-> "",
     descDisplay |-> FALSE, descText |-> <<"", "">>,
     infoButtons |-> FALSE, fullscreenButton |-> FALSE]

HideLoading(u) == [u EXCEPT !.loading = FALSE]
ShowSceneLoading(u) == [u EXCEPT !.sceneLoading = TRUE]
HideSceneLoading(u) == [u EXCEPT !.sceneLoading = FALSE]
ShowBackgroundImage(u) == [u EXCEPT !.backgroundImg = TRUE]
HideBackgroundImage(u) == [u EXCEPT !.backgroundImg = FALSE]
ShowInstructions(u) == [u EXCEPT !.instructions = TRUE]
HideInstructions(u) == [u EXCEPT !.instructions = FALSE]
ShowStartButton(u, text) == [u EXCEPT !.startText = text, !.startButton = TRUE]

\* buttons: None for null, Some(names) for a ButtonConfig list
UpdateToggleButtons(u, buttons) ==
    LET names == OrElse(buttons, <<>>)
        showLabel == buttons # None /\ Len(names) > 0
        one(btn, index) ==
            IF buttons # None /\ index < Len(names)
            THEN [text |-> names[index + 1], display |-> TRUE, selected |-> FALSE]
            ELSE [btn EXCEPT !.display = FALSE]
        updated == [i \in 1..ToggleCount |-> one(u.toggles[i], i - 1)]
    IN [u EXCEPT
          !.modelLabel = showLabel,
          !.toggles = IF showLabel
                      THEN [updated EXCEPT ![1].selected = TRUE]
                      ELSE updated]

SelectToggleButtonFlips(u, index) ==
    [u EXCEPT !.toggles =
        [i \in 1..ToggleCount |->
            IF i - 1 = index THEN [u.toggles[i] EXCEPT !.selected = ~@]
            ELSE u.toggles[i]]]

\* classList.toggle('selected', i === index) on every button
SelectToggleButton(u, index) ==
    [u EXCEPT !.toggles =
        [i \in 1..ToggleCount |-> [u.toggles[i] EXCEPT !.selected = (i - 1 = index)]]]

\* leftId, rightId: "" for null; every id the sequencer uses names a template
UpdateHtmlPanels(u, leftId, rightId) ==
    [u EXCEPT !.leftPanel = leftId, !.rightPanel = rightId]

ShowDescription(u, text) == [u EXCEPT !.descText = text, !.descDisplay = TRUE]
HideDescription(u) == [u EXCEPT !.descDisplay = FALSE]

\* every info button, the fullscreen button among them
ShowInfoButtons(u, show) == [u EXCEPT !.infoButtons = show, !.fullscreenButton = show]
HideFullscreenButton(u) == [u EXCEPT !.fullscreenButton = FALSE]

\* buttons[index]?.textContent
ButtonText(u, index) ==
    IF index + 1 \in 1..ToggleCount THEN u.toggles[index + 1].text ELSE "undefined"

----------------------------------------------------------------------------
(* CameraManager *)

InitCam ==
    [activeCamera |-> "perspective", orbitEnabled |-> FALSE, autoRotate |-> FALSE,
     autoRotateSpeed |-> 20, target |-> Vec(0, 10, 0),
     enablePan |-> TRUE, enableZoom |-> TRUE, enableRotate |-> TRUE,
     isLocked |-> FALSE, lockRequested |-> FALSE,
     position |-> [perspective |-> Vec(0, 0, 0), orthographic |-> Vec(0, 0, 0)],
     lookAt |-> [perspective |-> None, orthographic |-> None],
     fov |-> 75, rigPosition |-> Vec(0, 0, 0)]

NoCameraFields ==
    [type |-> "", cameraType |-> None, pos |-> None, lookAt |-> None, fov |-> None,
     autoRotate |-> None, autoRotateSpeed |-> None,
     enablePan |-> None, enableZoom |-> None, enableRotate |-> None]

SetupOrbitMode(c, config, pos, lookAt, vr) ==
    LET placed ==
            IF vr THEN [c EXCEPT !.rigPosition = pos]
            ELSE [c EXCEPT !.position[c.activeCamera] = pos,
                           !.lookAt[c.activeCamera] = Some(lookAt)]
    IN [placed EXCEPT
          !.target = lookAt,
          !.autoRotate = OrBool(config.autoRotate, FALSE),
          !.autoRotateSpeed = OrNum(config.autoRotateSpeed, 10),
          !.enablePan = OrElse(config.enablePan, TRUE),
          !.enableZoom = OrElse(config.enableZoom, TRUE),
          !.enableRotate = OrElse(config.enableRotate, TRUE),
          !.fov = IF config.cameraType = Some("orthographic")
                  THEN @ ELSE OrNum(config.fov, 75),
          !.orbitEnabled = TRUE]

SetupPointerLockMode(c, pos, fov, vr) ==
    IF vr THEN [c EXCEPT !.rigPosition = pos]
    ELSE [c EXCEPT !.fov = OrNum(fov, 75),
                   !.position["perspective"] = pos,
                   !.lockRequested = TRUE]

SwitchCamera(c, newCamera) == [c EXCEPT !.activeCamera = newCamera]

SetupCamera(c, config, vr) ==
    LET disabled == [c EXCEPT !.orbitEnabled = FALSE, !.autoRotate = FALSE,
                              !.isLocked = FALSE]
        newCamera == IF config.type = "pointerlock" THEN "perspective"
                     ELSE IF config.cameraType = Some("orthographic")
                          THEN "orthographic" ELSE "perspective"
        switched == IF disabled.activeCamera # newCamera
                    THEN SwitchCamera(disabled, newCamera) ELSE disabled
        pos == OrElse(config.pos, Vec(0, 50, 100))
        lookAt == OrElse(config.lookAt, Vec(0, 10, 0))
    IN IF config.type \in {"orbit", "static_orbit"}
       THEN SetupOrbitMode(switched, config, pos, lookAt, vr)
       ELSE IF config.type = "pointerlock"
            THEN SetupPointerLockMode(switched, pos, config.fov, vr)
            ELSE switched

----------------------------------------------------------------------------
(* The program state the handlers work on, threaded through them as a      *)
(* record: st.ui, st.cam, st.models (loadedModels), st.colliders           *)
(* (colliderMeshes), st.sounds (activeSounds), st.buffers (soundBuffers),  *)
(* st.pending (requests in flight), st.reload, st.hist                     *)

----------------------------------------------------------------------------
(* ModelLoader *)

\* a request handed to GLTFLoader.load; step is the scene step that issued it
LoadRequest(step, asset, id, visible, collider) ==
    [step |-> step, asset |-> asset, id |-> id, visible |-> visible,
     collider |-> collider]

\* loadModel / loadColliderModel up to the point where the promise is returned
RequestLoad(st, req) ==
    [st EXCEPT
       !.pending = @ \cup {req},
       !.hist.requested = @ \cup {req},
       !.hist.atRequest = @ \cup {<<req.step, Cardinality(st.models), Cardinality(st.colliders)>>}]

LoadModel(st, step, asset, id, visible) ==
    RequestLoad(st, LoadRequest(step, asset, id, visible, FALSE))

LoadColliderModel(st, step, asset) ==
    RequestLoad(st, LoadRequest(step, asset, "", FALSE, TRUE))

\* the onLoad callback of loadModel: the model joins the scene graph and the table
ModelLoaded(st, req) ==
    [st EXCEPT !.models = @ \cup {req}]

\* the onLoad callback of loadColliderModel: its mesh joins colliderMeshes too
ColliderLoaded(st, req) ==
    [st EXCEPT !.colliders = @ \cup {req.asset}, !.models = @ \cup {req}]

\* loadedModels.find(m => m.scene.userData.id === id): the entries with that id
\* (ids are given by step 2 alone, one model each, so there is at most one)
FindModel(models, id) == {m \in models : m.id = id}

SetModelVisibility(st, id, visible) ==
    LET found == FindModel(st.models, id)
    IN IF found # {}
       THEN LET m == CHOOSE x \in found : TRUE
            IN [st EXCEPT !.models = (@ \ {m}) \cup {[m EXCEPT !.visible = visible]}]
       ELSE st

UnloadAllKeepsModels(st) ==
    [st EXCEPT !.colliders = {}, !.hist.unloads = @ + 1]

UnloadAll(st) ==
    [st EXCEPT !.models = {}, !.colliders = {}, !.hist.unloads = @ + 1]

----------------------------------------------------------------------------
(* AudioManager *)

\* AudioManager.soundBuffers before loadAllSounds has filled a slot: no slot
\* holds a buffer (TRUE stands for an AudioBuffer, FALSE for null or undefined)
NoBuffers == [i \in DOMAIN SoundUrls |-> FALSE]

StopAll(st) == [st EXCEPT !.sounds = <<>>]

PlayAudio(st, index) ==
    IF ~st.buffers[index] THEN st
    ELSE [StopAll(st) EXCEPT !.sounds = <<index>>]

----------------------------------------------------------------------------
(* PhysicsManager.  Lengths are in thousandths of a unit, velocities in     *)
(* thousandths of a unit per second, frame times in milliseconds; a product *)
(* with a frame time is rounded towards zero.  The camera looks down -Z     *)
(* (no mouse look), so moveRight moves along +X and moveForward along -Z.   *)

\* APP_CONFIG.physics
Physics ==
    [playerHeight |-> 1600, playerRadius |-> 400, baseMoveSpeed |-> 20000,
     sprintMultiplier |-> 4, jumpVelocity |-> 6000, gravity |-> -20000,
     friction |-> 10]

\* the frame times clock.getDelta() returns: a 20 fps frame, a slow frame and
\* the first frame after a stall
Deltas == {50, 200, 500}

\* the key codes pressed and released
Codes == {"KeyW", "Space"}

\* every key code the handlers know, and one they do not
AllCodes == {"KeyW", "KeyS", "KeyA", "KeyD", "Space", "ShiftLeft", "KeyQ"}

\* n / d rounded towards zero
Trunc(n, d) == IF n >= 0 THEN n \div d ELSE -((-n) \div d)

\* rate * delta for a rate per second and a frame time in milliseconds
PerSecond(rate, delta) == Trunc(rate * delta, 1000)

Max(a, b) == IF a >= b THEN a ELSE b
Minimum(S) == CHOOSE x \in S : \A y \in S : x <= y
Bit(b) == IF b THEN 1 ELSE 0

\* The collider asset's geometry is not part of the sources: a field is a set
\* of horizontal floor planes (their heights) and a set of vertical wall
\* planes a*x + b*z = c with a, b in {-1, 0, 1}, hit by a ray from either side.
\* A flat floor at height 0 and a wall at 45 degrees to the axes, 460 in
\* front of the start pose (1400, 1600, -600) measured at right angles
FlatWithDiagonalWall ==
    [floors |-> {0}, walls |-> {[a |-> 1, b |-> 1, c |-> 150]}]
\* A floor 400 below the start pose's feet and an axis-aligned wall 400 in
\* front of the start pose
DropWithStraightWall ==
    [floors |-> {-400}, walls |-> {[a |-> 0, b |-> 1, c |-> -1000]}]
NoField == [floors |-> {}, walls |-> {}]
Fields == {FlatWithDiagonalWall, DropWithStraightWall}

\* what the raycaster can hit: the meshes in colliderMeshes
Meshes(colliders, field) == IF colliders = {} THEN NoField ELSE field

\* raycaster.set(pos, (0, -1, 0)); intersectObjects: the hit distances
FloorHits(pos, field) == {pos[2] - f : f \in {g \in field.floors : g <= pos[2]}}

\* raycaster.set(pos, dir); intersectObjects for a horizontal axis direction
WallHits(pos, dir, field) ==
    {(w.c - w.a * pos[1] - w.b * pos[3]) * (w.a * dir[1] + w.b * dir[3]) :
        w \in {v \in field.walls :
                 /\ v.a * dir[1] + v.b * dir[3] # 0
                 /\ (v.c - v.a * pos[1] - v.b * pos[3])
                      * (v.a * dir[1] + v.b * dir[3]) >= 0}}

InitKeys ==
    [forward |-> FALSE, backward |-> FALSE, left |-> FALSE, right |-> FALSE,
     jump |-> FALSE, sprint |-> FALSE]

\* the player as updatePlayerDesktop sees it: p.pos (the controls' object
\* position), p.vel, p.onFloor, p.keys, p.speed
Player ==
    [pos |-> cam.position["perspective"], vel |-> playerVelocity,
     onFloor |-> playerOnFloor, keys |-> keys, speed |-> currentMoveSpeed]

\* the grounding probe of step 1
LocalOnFloor(pos, field) ==
    /\ FloorHits(pos, field) # {}
    /\ Minimum(FloorHits(pos, field)) < Physics.playerHeight + 100

\* 1. Vertical Movement (Gravity & Floor)
VerticalMovement(p, delta, field) ==
    LET hits == FloorHits(p.pos, field)
        grounded ==
            LET clamped == Max(0, p.vel[2])
                vy == IF p.keys.jump THEN Physics.jumpVelocity ELSE clamped
                floorDist == Minimum(hits)
                y == IF floorDist < Physics.playerHeight
                     THEN p.pos[2] + (Physics.playerHeight - floorDist)
                     ELSE p.pos[2]
            IN [p EXCEPT !.vel[2] = vy, !.keys.jump = FALSE, !.pos[2] = y]
        airborne == [p EXCEPT !.vel[2] = @ + PerSecond(Physics.gravity, delta)]
        q == IF LocalOnFloor(p.pos, field) THEN grounded ELSE airborne
    IN [q EXCEPT !.pos[2] = @ + PerSecond(q.vel[2], delta)]

\* 2. Horizontal Movement (Friction)
Friction(p, delta) ==
    [p EXCEPT !.vel[1] = @ - PerSecond(@ * Physics.friction, delta),
              !.vel[3] = @ - PerSecond(@ * Physics.friction, delta)]

\* playerDirection.normalize(): the components in thousandths
Normalized(x, z) ==
    IF x # 0 /\ z # 0 THEN <<707 * x, 707 * z>> ELSE <<1000 * x, 1000 * z>>

HorizontalInputReleasesKeys(p, delta) ==
    [p EXCEPT !.keys.forward = FALSE]

\* 3. Horizontal Input
HorizontalInput(p, delta) ==
    LET dir == Normalized(Bit(p.keys.right) - Bit(p.keys.left),
                          Bit(p.keys.forward) - Bit(p.keys.backward))
        vz == IF p.keys.forward \/ p.keys.backward
              THEN p.vel[3] - Trunc(dir[2] * PerSecond(p.speed, delta), 1000)
              ELSE p.vel[3]
        vx == IF p.keys.left \/ p.keys.right
              THEN p.vel[1] - Trunc(dir[1] * PerSecond(p.speed, delta), 1000)
              ELSE p.vel[1]
    IN [p EXCEPT !.vel[1] = vx, !.vel[3] = vz]

\* 4. Apply Horizontal Movement: moveRight(-vx * delta), moveForward(-vz * delta)
ApplyHorizontalMovement(p, delta) ==
    [p EXCEPT !.pos[1] = @ - PerSecond(p.vel[1], delta),
              !.pos[3] = @ + PerSecond(p.vel[3], delta)]

CheckDirections == <<<<1, 0, 0>>, <<-1, 0, 0>>, <<0, 0, 1>>, <<0, 0, -1>>>>

\* one round of the loop of step 5: the ray starts at checkPos, the position
\* before the loop
ResolveDirection(p, checkPos, dir, field) ==
    LET hits == WallHits(checkPos, dir, field)
    IN IF hits # {} /\ Minimum(hits) < Physics.playerRadius
       THEN LET penetrationDepth == Physics.playerRadius - Minimum(hits)
            IN [p EXCEPT
                  !.pos[1] = @ - dir[1] * (penetrationDepth + 10),
                  !.pos[3] = @ - dir[3] * (penetrationDepth + 10),
                  !.vel[1] = IF dir[1] # 0 THEN 0 ELSE @,
                  !.vel[3] = IF dir[3] # 0 THEN 0 ELSE @]
       ELSE p

\* 5. Collision Resolution
CollisionResolution(p, field) ==
    LET checkPos == p.pos
        r1 == ResolveDirection(p, checkPos, CheckDirections[1], field)
        r2 == ResolveDirection(r1, checkPos, CheckDirections[2], field)
        r3 == ResolveDirection(r2, checkPos, CheckDirections[3], field)
    IN ResolveDirection(r3, checkPos, CheckDirections[4], field)

\* 6. Final Ground Check
FinalGroundCheck(p, field) ==
    LET hits == FloorHits(p.pos, field)
        floorDist == Minimum(hits)
    IN IF hits # {} /\ floorDist < Physics.playerHeight + 100
       THEN IF floorDist < Physics.playerHeight
            THEN [p EXCEPT !.onFloor = TRUE,
                           !.pos[2] = (p.pos[2] - floorDist) + Physics.playerHeight,
                           !.vel[2] = IF @ < 0 THEN 0 ELSE @]
            ELSE [p EXCEPT !.onFloor = TRUE]
       ELSE [p EXCEPT !.onFloor = FALSE]

\* updatePlayerDesktop after its isLocked guard
UpdatePlayerDesktop(p, delta, field) ==
    FinalGroundCheck(
        CollisionResolution(
            ApplyHorizontalMovement(
                HorizontalInput(
                    Friction(VerticalMovement(p, delta, field), delta),
                    delta),
                delta),
            field),
        field)

HandleKeyDownAnywhere(p, code) ==
    CASE code = "KeyW" -> [p EXCEPT !.keys.forward = TRUE]
      [] code = "KeyS" -> [p EXCEPT !.keys.backward = TRUE]
      [] code = "KeyA" -> [p EXCEPT !.keys.left = TRUE]
      [] code = "KeyD" -> [p EXCEPT !.keys.right = TRUE]
      [] code = "Space" -> [p EXCEPT !.keys.jump = TRUE]
      [] code = "ShiftLeft" ->
            [p EXCEPT !.keys.sprint = TRUE,
                      !.speed = Physics.baseMoveSpeed * Physics.sprintMultiplier]
      [] OTHER -> p

HandleKeyDown(p, code) ==
    CASE code = "KeyW" -> [p EXCEPT !.keys.forward = TRUE]
      [] code = "KeyS" -> [p EXCEPT !.keys.backward = TRUE]
      [] code = "KeyA" -> [p EXCEPT !.keys.left = TRUE]
      [] code = "KeyD" -> [p EXCEPT !.keys.right = TRUE]
      [] code = "Space" -> IF p.onFloor THEN [p EXCEPT !.keys.jump = TRUE] ELSE p
      [] code = "ShiftLeft" ->
            [p EXCEPT !.keys.sprint = TRUE,
                      !.speed = Physics.baseMoveSpeed * Physics.sprintMultiplier]
      [] OTHER -> p

HandleKeyUp(p, code) ==
    CASE code = "KeyW" -> [p EXCEPT !.keys.forward = FALSE]
      [] code = "KeyS" -> [p EXCEPT !.keys.backward = FALSE]
      [] code = "KeyA" -> [p EXCEPT !.keys.left = FALSE]
      [] code = "KeyD" -> [p EXCEPT !.keys.right = FALSE]
      [] code = "Space" -> [p EXCEPT !.keys.jump = FALSE]
      [] code = "ShiftLeft" ->
            [p EXCEPT !.keys.sprint = FALSE, !.speed = Physics.baseMoveSpeed]
      [] OTHER -> p

\* PhysicsManager.reset: the velocity, the floor flag and the six key flags
Reset(p) ==
    [p EXCEPT !.vel = <<0, 0, 0>>, !.onFloor = TRUE, !.keys = InitKeys]

\* APP_CONFIG.vr: speeds in thousandths per second, the threshold in thousandths
VRSettings == [moveSpeed |-> 80000, turnSpeed |-> 2000, sprintThreshold |-> 500]

\* the userData of a controller as setupVR leaves it: neither hand nor gamepad
BareController == [hand |-> None, gamepad |-> None]

\* the forEach over vrControllers: the gamepad of the last controller that
\* carries one and whose userData.hand is hand, if there is any
SelectGamepad(controllers, pads, hand) ==
    LET found == {i \in DOMAIN controllers :
                    /\ controllers[i].gamepad # None
                    /\ controllers[i].hand = Some(hand)}
    IN IF found = {} THEN None
       ELSE Some(pads[controllers[CHOOSE i \in found :
                                    \A j \in found : j <= i].gamepad[1]])

\* the rig as updatePlayerVR sees it: p.pos (playerRig.position), p.vel,
\* p.yaw (the rig's rotation about Y, in thousandths of a radian)
Rig == [pos |-> cam.rigPosition, vel |-> playerVelocity, yaw |-> rigYaw]

VRVerticalMovementJumps(p, delta, field) ==
    [p EXCEPT !.vel[2] = Physics.jumpVelocity]

\* 1. Vertical Movement: the ray starts 0.1 above the rig
VRVerticalMovement(p, delta, field) ==
    LET hits == FloorHits([p.pos EXCEPT ![2] = @ + 100], field)
        onFloor == hits # {} /\ Minimum(hits) < 150
    IN IF onFloor
       THEN [p EXCEPT !.vel[2] = Max(0, @),
                      !.pos[2] = (p.pos[2] + 100 - Minimum(hits)) + 50]
       ELSE [p EXCEPT !.vel[2] = @ + PerSecond(Physics.gravity, delta)]

\* 3. Input & Direction. The headset looks straight ahead of a rig that
\* faces -Z, so that cameraDirection is (0, 0, -1) and the right vector
\* (1, 0, 0)
VRInput(p, delta, moveGamepad, turnGamepad) ==
    LET pad == moveGamepad[1]
        moveSpeed == IF moveGamepad # None /\ pad.button0 > VRSettings.sprintThreshold
                     THEN VRSettings.moveSpeed * Physics.sprintMultiplier
                     ELSE VRSettings.moveSpeed
        x == IF moveGamepad # None THEN pad.axes2 ELSE 0
        z == IF moveGamepad # None THEN pad.axes3 ELSE 0
        turnAxis == IF turnGamepad # None THEN turnGamepad[1].axes2 ELSE 0
        yaw == IF turnAxis > 100 \/ turnAxis < -100
               THEN p.yaw - Trunc(turnAxis * PerSecond(VRSettings.turnSpeed, delta),
                                  1000)
               ELSE p.yaw
    IN [p EXCEPT !.yaw = yaw,
                 !.vel[1] = @ + Trunc(x * PerSecond(moveSpeed, delta), 1000),
                 !.vel[3] = @ + Trunc(z * PerSecond(moveSpeed, delta), 1000)]

\* 4. Apply Position
VRApplyPosition(p, delta) ==
    [p EXCEPT !.pos[1] = @ + PerSecond(p.vel[1], delta),
              !.pos[3] = @ + PerSecond(p.vel[3], delta),
              !.pos[2] = @ + PerSecond(p.vel[2], delta)]

\* 5. Collision Resolution: the rays start 1.0 above the rig
VRCollisionResolution(p, field) ==
    LET checkPos == [p.pos EXCEPT ![2] = @ + 1000]
        r1 == ResolveDirection(p, checkPos, CheckDirections[1], field)
        r2 == ResolveDirection(r1, checkPos, CheckDirections[2], field)
        r3 == ResolveDirection(r2, checkPos, CheckDirections[3], field)
    IN ResolveDirection(r3, checkPos, CheckDirections[4], field)

\* 6. Final Floor Check
VRFinalFloorCheck(p, field) ==
    LET hits == FloorHits([p.pos EXCEPT ![2] = @ + 100], field)
    IN IF hits # {} /\ Minimum(hits) < 150
       THEN [p EXCEPT !.pos[2] = (p.pos[2] + 100 - Minimum(hits)) + 50,
                      !.vel[2] = IF @ < 0 THEN 0 ELSE @]
       ELSE p

\* PhysicsManager.updatePlayerVR
UpdatePlayerVR(p, delta, field, controllers, pads) ==
    VRFinalFloorCheck(
        VRCollisionResolution(
            VRApplyPosition(
                VRInput(Friction(VRVerticalMovement(p, delta, field), delta), delta,
                        SelectGamepad(controllers, pads, "left"),
                        SelectGamepad(controllers, pads, "right")),
                delta),
            field),
        field)

----------------------------------------------------------------------------
(* SequenceManager *)

OrbitConfigDefaultRotate(config) ==
    [NoCameraFields EXCEPT
       !.type = "orbit", !.cameraType = config.cameraType,
       !.pos = config.cameraPosition, !.lookAt = config.cameraLookAt,
       !.autoRotate = config.autoRotate,
       !.autoRotateSpeed = config.autoRotateSpeed,
       !.enablePan = config.enablePan, !.enableZoom = config.enableZoom]

\* the camera config loadScene0..3 build from the scene's config
OrbitConfig(config) ==
    [NoCameraFields EXCEPT
       !.type = "orbit", !.cameraType = config.cameraType,
       !.pos = config.cameraPosition, !.lookAt = config.cameraLookAt,
       !.autoRotate = config.autoRotate,
       !.autoRotateSpeed = config.autoRotateSpeed,
       !.enablePan = config.enablePan, !.enableZoom = config.enableZoom,
       !.enableRotate = config.enableUserRotation]

Scene4PanelIds ==
    <<<<"html_scene4_cam1_left", "html_scene4_cam1_right">>,
      <<"html_scene4_cam2_left", "html_scene4_cam2_right">>,
      <<"html_scene4_cam3_left", "html_scene4_cam3_right">>,
      <<"html_scene4_cam4_left", "html_scene4_cam4_right">>,
      <<"html_scene4_cam5_left", "html_scene4_cam5_right">>,
      <<"html_scene4_cam6_left", "html_scene4_cam6_right">>>>

\* case 1 of handleVariantClick
VariantScene1(st, index) ==
    LET panels ==
            IF index = 0
            THEN UpdateHtmlPanels(st.ui, "html_scene1_opt1_left", "html_scene1_opt1_right")
            ELSE IF index = 1
            THEN UpdateHtmlPanels(st.ui, "html_scene1_opt2_left", "html_scene1_opt2_right")
            ELSE IF index = 2
            THEN UpdateHtmlPanels(st.ui, "html_scene1_opt3_left", "html_scene1_opt3_right")
            ELSE st.ui
    IN [st EXCEPT !.ui = ShowDescription(panels, <<"Info for", ButtonText(st.ui, index)>>)]

VariantScene2ShowsOnly(st, index) ==
    LET showView1 == (index = 0)
        v1 == IF showView1 THEN SetModelVisibility(st, "m1", TRUE) ELSE st
        v2 == IF showView1 THEN SetModelVisibility(v1, "m4", TRUE) ELSE v1
        v3 == IF showView1 THEN v2 ELSE SetModelVisibility(v2, "m3", TRUE)
        v4 == IF showView1 THEN v3 ELSE SetModelVisibility(v3, "m5", TRUE)
        panels ==
            IF index = 0
            THEN UpdateHtmlPanels(v4.ui, "html_scene2_opt1_left", "html_scene2_opt1_right")
            ELSE IF index = 1
            THEN UpdateHtmlPanels(v4.ui, "html_scene2_opt2_left", "html_scene2_opt2_right")
            ELSE v4.ui
    IN [v4 EXCEPT !.ui = ShowDescription(panels, <<"Showing", ButtonText(st.ui, index)>>)]

\* case 2 of handleVariantClick
VariantScene2(st, index) ==
    LET showView1 == (index = 0)
        v1 == SetModelVisibility(st, "m1", showView1)
        v2 == SetModelVisibility(v1, "m4", showView1)
        v3 == SetModelVisibility(v2, "m3", ~showView1)
        v4 == SetModelVisibility(v3, "m5", ~showView1)
        panels ==
            IF index = 0
            THEN UpdateHtmlPanels(v4.ui, "html_scene2_opt1_left", "html_scene2_opt1_right")
            ELSE IF index = 1
            THEN UpdateHtmlPanels(v4.ui, "html_scene2_opt2_left", "html_scene2_opt2_right")
            ELSE v4.ui
    IN [v4 EXCEPT !.ui = ShowDescription(panels, <<"Showing", ButtonText(st.ui, index)>>)]

VariantScene4FirstEntry(st, sceneConfig, index, vr) ==
    LET positions == OrElse(sceneConfig.cameraPositions, <<>>)
    IN IF sceneConfig.cameraPositions # None /\ index < Len(positions)
       THEN LET camPos == positions[1]
                placed == SetupCamera(st.cam,
                            [NoCameraFields EXCEPT
                               !.type = "static_orbit",
                               !.cameraType = Some("perspective"),
                               !.pos = Some(camPos.pos),
                               !.lookAt = Some(camPos.lookAt),
                               !.fov = Some(camPos.fov),
                               !.autoRotate = Some(FALSE),
                               !.enablePan = Some(FALSE),
                               !.enableZoom = Some(TRUE),
                               !.enableRotate = Some(TRUE)], vr)
                panels == IF index + 1 \in DOMAIN Scene4PanelIds
                          THEN UpdateHtmlPanels(st.ui, Scene4PanelIds[index + 1][1],
                                                Scene4PanelIds[index + 1][2])
                          ELSE st.ui
            IN [st EXCEPT
                  !.cam = placed,
                  !.ui = ShowDescription(panels, <<"Camera:", ButtonText(st.ui, index)>>)]
       ELSE st

\* case 4 of handleVariantClick; sceneConfig is APP_CONFIG.scenes[4]
VariantScene4(st, sceneConfig, index, vr) ==
    LET positions == OrElse(sceneConfig.cameraPositions, <<>>)
    IN IF sceneConfig.cameraPositions # None /\ index < Len(positions)
       THEN LET camPos == positions[index + 1]
                placed == SetupCamera(st.cam,
                            [NoCameraFields EXCEPT
                               !.type = "static_orbit",
                               !.cameraType = Some("perspective"),
                               !.pos = Some(camPos.pos),
                               !.lookAt = Some(camPos.lookAt),
                               !.fov = Some(camPos.fov),
                               !.autoRotate = Some(FALSE),
                               !.enablePan = Some(FALSE),
                               !.enableZoom = Some(TRUE),
                               !.enableRotate = Some(TRUE)], vr)
                panels == IF index + 1 \in DOMAIN Scene4PanelIds
                          THEN UpdateHtmlPanels(st.ui, Scene4PanelIds[index + 1][1],
                                                Scene4PanelIds[index + 1][2])
                          ELSE st.ui
            IN [st EXCEPT
                  !.cam = placed,
                  !.ui = ShowDescription(panels, <<"Camera:", ButtonText(st.ui, index)>>)]
       ELSE st

HandleVariantClickReloads(st, scene, index, vr) ==
    LoadModel(UnloadAll(st), scene, 0, "", TRUE)

\* handleVariantClick(index) with this.currentScene = scene
HandleVariantClick(st, scene, index, vr) ==
    LET selected == [st EXCEPT !.ui = SelectToggleButton(st.ui, index)]
    IN CASE scene = 1 -> VariantScene1(selected, index)
         [] scene = 2 -> VariantScene2(selected, index)
         [] scene = 4 -> VariantScene4(selected, Scenes[4 + 1], index, vr)
         [] OTHER -> selected


\* config.models.map(modelIndex => loadModel(modelUrls[modelIndex], {visible: true}))
RECURSIVE RequestModels(_, _, _)
RequestModels(st, step, models) ==
    IF models = <<>> THEN st
    ELSE RequestModels(LoadModel(st, step, Head(models), "", TRUE), step, Tail(models))

\* loadScene0 up to its Promise.all
LoadScene0Start(st, config) ==
    LET shown == [st EXCEPT !.ui = ShowStartButton(HideInstructions(st.ui), "Start")]
    IN RequestModels(UnloadAll(shown), 0, config.models)

\* loadScene0 after its Promise.all
LoadScene0Finish(st, config, vr) ==
    LET placed == [st EXCEPT
                     !.cam = SetupCamera(st.cam, OrbitConfig(config), vr),
                     !.ui = UpdateHtmlPanels(st.ui, "html_scene0_left", "html_scene0_right")]
    IN PlayAudio(placed, 0)

\* loadScene1: nothing is awaited
LoadScene1Reloads(st, config, vr) ==
    RequestModels(UnloadAll(st), 1, config.models)

\* loadScene1: no await, so the whole routine runs within the call
LoadScene1(st, config, vr) ==
    LET shown == ShowStartButton(st.ui, "Next Scene")
        toggled == IF config.buttons # None
                   THEN UpdateToggleButtons(shown, config.buttons) ELSE shown
        placed == [st EXCEPT
                     !.cam = SetupCamera(st.cam, OrbitConfig(config), vr),
                     !.ui = UpdateHtmlPanels(toggled, "html_scene1_opt1_left",
                                             "html_scene1_opt1_right")]
    IN PlayAudio(placed, 1)

LoadScene2Start(st, config) ==
    LET r1 == LoadModel(UnloadAll(st), 2, 0, "m1", FALSE)
        r2 == LoadModel(r1, 2, 3, "m4", FALSE)
        r3 == LoadModel(r2, 2, 2, "m3", FALSE)
    IN LoadModel(r3, 2, 4, "m5", FALSE)

\* scene is this.currentScene when the continuation runs
LoadScene2Finish(st, scene, config, vr) ==
    LET toggled == IF config.buttons # None
                   THEN UpdateToggleButtons(st.ui, config.buttons) ELSE st.ui
        placed == [st EXCEPT
                     !.ui = toggled,
                     !.cam = SetupCamera(st.cam, OrbitConfig(config), vr)]
    IN PlayAudio(HandleVariantClick(placed, scene, 0, vr), 2)

LoadScene3StartWithoutUnload(st, config) ==
    RequestModels(st, 3, config.models)

LoadScene3Start(st, config) ==
    RequestModels(UnloadAll(st), 3, config.models)

LoadScene3Finish(st, config, vr) ==
    LET placed == [st EXCEPT
                     !.ui = UpdateHtmlPanels(UpdateToggleButtons(st.ui, None),
                                             "html_scene3_left", "html_scene3_right"),
                     !.cam = SetupCamera(st.cam, OrbitConfig(config), vr)]
    IN PlayAudio(placed, 3)

LoadScene4Start(st, config) ==
    LoadModel(UnloadAll(st), 4, 6, "", TRUE)

LoadScene4Finish(st, scene, config, vr) ==
    LET toggled == [st EXCEPT !.ui = IF config.buttons # None
                                     THEN UpdateToggleButtons(st.ui, config.buttons)
                                     ELSE st.ui]
    IN PlayAudio(HandleVariantClick(toggled, scene, 0, vr), 4)

LoadScene5StartLocksAtOnce(st, config) ==
    LET requested == LoadColliderModel(LoadModel(UnloadAll(st), 5, 6, "", TRUE), 5, 7)
    IN [requested EXCEPT !.cam.lockRequested = TRUE]

LoadScene5Start(st, config) ==
    LoadColliderModel(LoadModel(UnloadAll(st), 5, 6, "", TRUE), 5, 7)

LoadScene5Finish(st, config, vr) ==
    LET placed == [st EXCEPT
                     !.ui = UpdateHtmlPanels(
                               ShowStartButton(UpdateToggleButtons(st.ui, None), "Restart"),
                               "html_scene5_left", "html_scene5_right"),
                     !.cam = SetupCamera(st.cam,
                                [NoCameraFields EXCEPT !.type = "pointerlock",
                                                       !.pos = config.cameraPosition], vr)]
    IN PlayAudio(placed, 5)

\* loadScene(config), the part that runs in the caller's task: step is
\* this.currentScene, read by the switch
LoadSceneStart(st, step, config, vr) ==
    CASE step = 0 -> LoadScene0Start(st, config)
      [] step = 1 -> LoadScene1(st, config, vr)
      [] step = 2 -> LoadScene2Start(st, config)
      [] step = 3 -> LoadScene3Start(st, config)
      [] step = 4 -> LoadScene4Start(st, config)
      [] step = 5 -> LoadScene5Start(st, config)
      [] OTHER -> st

\* the continuation of step's load routine once all its loads have resolved
LoadSceneFinish(st, step, scene, config, vr) ==
    LET done == [st EXCEPT !.hist.postLoad = @ \cup {step}]
    IN CASE step = 0 -> LoadScene0Finish(done, config, vr)
         [] step = 2 -> LoadScene2Finish(done, scene, config, vr)
         [] step = 3 -> LoadScene3Finish(done, config, vr)
         [] step = 4 -> LoadScene4Finish(done, scene, config, vr)
         [] step = 5 -> LoadScene5Finish(done, config, vr)
         [] OTHER -> st

\* runNextScene before its try block
ShowLoadingIndicators(st) ==
    StopAll([st EXCEPT !.ui =
        HideDescription(UpdateHtmlPanels(ShowInfoButtons(
            ShowBackgroundImage(ShowSceneLoading(st.ui)), FALSE), "", ""))])

FinallyKeepsIndicator(st, vr) ==
    [st EXCEPT !.ui = ShowInfoButtons(HideBackgroundImage(st.ui), TRUE)]

\* the finally block of runNextScene
Finally(st, vr) ==
    LET shown == ShowInfoButtons(HideBackgroundImage(HideSceneLoading(st.ui)), TRUE)
    IN [st EXCEPT !.ui = IF vr THEN HideFullscreenButton(shown) ELSE shown]

RestartNever(st, scene) == st

\* the try block of runNextScene when the catalog has no entry for scene
Restart(st, scene) ==
    IF scene = 6 THEN [st EXCEPT !.reload = TRUE] ELSE st

----------------------------------------------------------------------------
(* The state machine *)

\* SceneManager.setupComposerWithCamera: the camera the new RenderPass and
\* SSAOPass are built with
SetupComposerWithCamera(camera) == camera

NotCalled == [state |-> "none", error |-> None]

\* an XR gamepad: axes[2], axes[3] and buttons[0].value, in thousandths
Gamepad(x, y, button) == [axes2 |-> x, axes3 |-> y, button0 |-> button]

\* both sticks centred, no trigger pressed
SticksAtRest == [left |-> Gamepad(0, 0, 0), right |-> Gamepad(0, 0, 0)]

\* the stick positions tried: at rest, the left stick pushed forward with and
\* without the trigger, the right stick pushed to the right
Sticks ==
    {SticksAtRest,
     [left |-> Gamepad(0, -1000, 0), right |-> Gamepad(0, 0, 0)],
     [left |-> Gamepad(500, -1000, 1000), right |-> Gamepad(0, 0, 0)],
     [left |-> Gamepad(0, 0, 0), right |-> Gamepad(1000, 0, 0)]}
Pending == [state |-> "pending", error |-> None]
Fulfilled == [state |-> "fulfilled", error |-> None]
Rejected(req) == [state |-> "rejected", error |-> Some(req)]

\* no frame has been drawn yet
NoEvent ==
    [kind |-> "none", scene |-> -1, locked |-> FALSE, vr |-> FALSE,
     grounded |-> FALSE, code |-> ""]

\* a key event as the properties see it
KeyEvent(kind, code) == [NoEvent EXCEPT !.kind = kind, !.code = code]

InitHist ==
    [requested |-> {}, failed |-> {}, atRequest |-> {}, unloads |-> 0,
     postLoad |-> {}, earlyClicks |-> 0, sites |-> {}, surfaced |-> {}]

\* the page as the Application constructor leaves it, the sound catalog
\* being urls
InitWith(urls) ==
    /\ currentScene = -1
    /\ isVR = FALSE
    /\ experienceStarted = FALSE
    /\ loadedModels = {}
    /\ colliderMeshes = {}
    /\ pendingLoads = {}
    /\ ui = InitUI
    /\ cam = InitCam
    /\ soundBuffers = NoBuffers
    /\ activeSounds = <<>>
    /\ calls = [n \in 0..MaxScene |-> NotCalled]
    /\ reloadRequested = FALSE
    /\ hist = InitHist
    /\ applicationIsVR = FALSE
    /\ keys = InitKeys
    /\ playerVelocity = <<0, 0, 0>>
    /\ playerOnFloor = FALSE
    /\ currentMoveSpeed = Physics.baseMoveSpeed
    /\ colliderField = NoField
    /\ ticks = 0
    /\ lastEvent = NoEvent
    /\ detected = "pending"
    /\ presenting = FALSE
    /\ vrControllers = <<>>
    /\ gamepads = SticksAtRest
    /\ rigYaw = 0
    /\ soundUrls = urls
    /\ soundLoads = [i \in DOMAIN SoundUrls |-> "none"]
    /\ soundsPromise = "none"
    /\ fadingSounds = <<>>
    /\ composerCamera = SetupComposerWithCamera(InitCam.activeCamera)

Init == InitWith(SoundUrls)

\* the sound catalogs tried: each slot is null or names a file
UrlConfigs == [DOMAIN SoundUrls -> {None, Some("sound.mp3")}]

InitAudio == \E urls \in UrlConfigs : InitWith(urls)

State ==
    [ui |-> ui, cam |-> cam, models |-> loadedModels, colliders |-> colliderMeshes,
     sounds |-> activeSounds, buffers |-> soundBuffers, pending |-> pendingLoads,
     reload |-> reloadRequested, hist |-> hist]

Commit(st) ==
    /\ ui' = st.ui
    /\ cam' = st.cam
    /\ loadedModels' = st.models
    /\ colliderMeshes' = st.colliders
    /\ activeSounds' = st.sounds
    /\ soundBuffers' = st.buffers
    /\ pendingLoads' = st.pending
    /\ reloadRequested' = st.reload
    /\ hist' = st.hist

InFlight == {n \in DOMAIN calls : calls[n].state = "pending"}

Faults == Cardinality(hist.failed) + hist.earlyClicks

\* the rejection handlers a call site attaches to the promise runNextScene
\* returns: each site calls `this.sequenceManager.runNextScene();` as a
\* statement, without await, then or catch
RejectionHandlers(site) == {}

\* runNextScene is about to be called from site: remembered for the properties
CalledFrom(st, site) ==
    [st EXCEPT !.hist.sites = @ \cup {[step |-> currentScene + 1, site |-> site]}]

\* the promise of the call that entered step rejects: the handlers of its
\* call site run, if it attached any
Surface(st, step) ==
    [st EXCEPT !.hist.surfaced =
        @ \cup {s.step : s \in {x \in st.hist.sites :
                                   x.step = step /\ RejectionHandlers(x.site) # {}}}]

\* runNextScene, up to the point where it settles or suspends on its loads
RunNextScene(st) ==
    LET scene == currentScene + 1
        begun == ShowLoadingIndicators(st)
        sceneConfig == SceneConfig(scene)
    IN /\ currentScene' = scene
       /\ IF sceneConfig = None
          THEN /\ Commit(Finally(Restart(begun, scene), isVR))
               /\ calls' = [calls EXCEPT ![scene] = Fulfilled]
          ELSE LET started == LoadSceneStart(begun, scene, sceneConfig[1], isVR)
               IN IF \E r \in started.pending : r.step = scene
                  THEN /\ Commit(started)
                       /\ calls' = [calls EXCEPT ![scene] = Pending]
                  ELSE /\ Commit(Finally(started, isVR))
                       /\ calls' = [calls EXCEPT ![scene] = Fulfilled]

\* checkVRCapability finds no immersive-vr support: setupDesktop, which
\* registers the listener of the first click
SetupDesktop ==
    /\ detected = "pending"
    /\ detected' = "desktop"
    /\ applicationIsVR' = FALSE
    /\ UNCHANGED <<currentScene, isVR, experienceStarted, loadedModels,
                   colliderMeshes, pendingLoads, ui, cam, soundBuffers, activeSounds,
                   calls, reloadRequested, hist, keys, playerVelocity, playerOnFloor,
                   currentMoveSpeed, colliderField, ticks, lastEvent, presenting,
                   vrControllers, gamepads, rigYaw, audioVars, composerCamera>>

\* checkVRCapability finds immersive-vr support: setupVR
SetupVR ==
    /\ detected = "pending"
    /\ detected' = "vr"
    /\ applicationIsVR' = TRUE
    /\ ui' = HideInstructions(HideFullscreenButton(ui))
    /\ vrControllers' = <<BareController, BareController>>
    /\ UNCHANGED <<currentScene, isVR, experienceStarted, loadedModels,
                   colliderMeshes, pendingLoads, cam, soundBuffers, activeSounds,
                   calls, reloadRequested, hist, keys, playerVelocity, playerOnFloor,
                   currentMoveSpeed, colliderField, ticks, lastEvent, presenting,
                   gamepads, rigYaw, audioVars, composerCamera>>

\* the user starts the VR session with the VR button: the 'sessionstart'
\* listener (a page that is being reloaded starts no session)
SessionStart ==
    /\ detected = "vr" /\ ~presenting /\ ~reloadRequested
    /\ currentScene < MaxScene /\ InFlight = {}
    /\ presenting' = TRUE
    /\ experienceStarted' = TRUE
    /\ RunNextScene([CalledFrom(State, "sessionStart") EXCEPT
                        !.ui = HideBackgroundImage(@)])
    /\ UNCHANGED <<isVR, colliderField, physVars, detected, vrControllers, gamepads,
                   rigYaw, audioVars, composerCamera>>

\* the VR session ends: the 'sessionend' listener
SessionEnd ==
    /\ presenting
    /\ presenting' = FALSE
    /\ reloadRequested' = TRUE
    /\ UNCHANGED <<currentScene, isVR, experienceStarted, loadedModels,
                   colliderMeshes, pendingLoads, ui, cam, soundBuffers, activeSounds,
                   calls, hist, colliderField, physVars, detected, vrControllers,
                   gamepads, rigYaw, audioVars, composerCamera>>

\* the user moves the sticks or the trigger of the controllers
StickMove(pads) ==
    /\ presenting
    /\ gamepads' = pads
    /\ UNCHANGED <<currentScene, isVR, experienceStarted, loadedModels,
                   colliderMeshes, pendingLoads, ui, cam, soundBuffers, activeSounds,
                   calls, reloadRequested, hist, colliderField, physVars, detected,
                   presenting, vrControllers, rigYaw, audioVars, composerCamera>>

\* Application.onInitialClick: the first click on the page
InitialClick ==
    /\ detected = "desktop"
    /\ ~experienceStarted
    /\ experienceStarted' = TRUE
    /\ RunNextScene(CalledFrom(State, "initialClick"))
    /\ UNCHANGED <<isVR, colliderField, physVars, vrVars, audioVars, composerCamera>>

\* the start button's click listener (Application.setupEventListeners)
StartButtonClick ==
    /\ ui.startButton
    /\ currentScene < MaxScene
    /\ InFlight # {} => Faults < MaxFaults
    /\ RunNextScene([CalledFrom(State, "startButton") EXCEPT !.hist.earlyClicks =
                        IF InFlight # {} THEN @ + 1 ELSE @])
    /\ UNCHANGED <<isVR, experienceStarted, colliderField, physVars, vrVars, audioVars, composerCamera>>

\* a toggle button's click listener, or any other caller of handleVariantClick
ToggleButtonClick(index) ==
    /\ Commit(HandleVariantClick(State, currentScene, index, isVR))
    /\ UNCHANGED <<currentScene, isVR, experienceStarted, calls, colliderField,
                    physVars, vrVars, audioVars, composerCamera>>

\* Promise.all over the loads of step: fulfilled once none of them is pending
\* (a rejection has settled the call before, see LoadReject)
AllResolvedFirstWins(st, step) == TRUE

AllResolvedNever(st, step) == FALSE

AllResolved(st, step) == ~\E r \in st.pending : r.step = step

\* GLTFLoader calls onLoad for req; when it was the last load its step's
\* Promise.all waited for, the step's load routine and runNextScene resume
LoadResolve(req) ==
    LET rest == [State EXCEPT !.pending = @ \ {req}]
        loaded == IF req.collider THEN ColliderLoaded(rest, req)
                  ELSE ModelLoaded(rest, req)
        step == req.step
    IN /\ req \in pendingLoads
       /\ IF calls[step].state = "pending" /\ AllResolved(loaded, step)
          THEN /\ Commit(Finally(LoadSceneFinish(loaded, step, currentScene,
                                                 Scenes[step + 1], isVR), isVR))
               /\ calls' = [calls EXCEPT ![step] = Fulfilled]
          ELSE /\ Commit(loaded)
               /\ UNCHANGED calls
       /\ IF req.collider THEN colliderField' \in Fields ELSE UNCHANGED colliderField
       /\ UNCHANGED <<currentScene, isVR, experienceStarted, physVars, vrVars, audioVars, composerCamera>>

LoadRejectRollsBack(req) ==
    LET rest == [State EXCEPT !.pending = @ \ {req}, !.hist.failed = @ \cup {req}]
        step == req.step
    IN /\ req \in pendingLoads
       /\ Faults < MaxFaults
       /\ IF calls[step].state = "pending"
          THEN /\ Commit(Surface(Finally(rest, isVR), step))
               /\ calls' = [calls EXCEPT ![step] = Rejected(req)]
               /\ currentScene' = currentScene - 1
          ELSE /\ Commit(rest)
               /\ UNCHANGED <<calls, currentScene>>
       /\ UNCHANGED <<isVR, experienceStarted, colliderField, physVars, vrVars, audioVars, composerCamera>>

\* GLTFLoader calls onError for req: Promise.all rejects with the first error,
\* which runNextScene's catch block rethrows after the finally block
LoadReject(req) ==
    LET rest == [State EXCEPT !.pending = @ \ {req}, !.hist.failed = @ \cup {req}]
        step == req.step
    IN /\ req \in pendingLoads
       /\ Faults < MaxFaults
       /\ IF calls[step].state = "pending"
          THEN /\ Commit(Surface(Finally(rest, isVR), step))
               /\ calls' = [calls EXCEPT ![step] = Rejected(req)]
          ELSE /\ Commit(rest)
               /\ UNCHANGED calls
       /\ UNCHANGED <<currentScene, isVR, experienceStarted, colliderField, physVars, vrVars, audioVars, composerCamera>>

\* the navigation started by window.location.reload() commits: a fresh page
PageReload ==
    /\ reloadRequested
    /\ currentScene' = -1
    /\ isVR' = FALSE
    /\ experienceStarted' = FALSE
    /\ calls' = [n \in 0..MaxScene |-> NotCalled]
    /\ Commit([ui |-> InitUI, cam |-> InitCam, models |-> {}, colliders |-> {},
               sounds |-> <<>>, buffers |-> NoBuffers,
               pending |-> {}, reload |-> FALSE, hist |-> InitHist])
    /\ applicationIsVR' = FALSE
    /\ keys' = InitKeys
    /\ playerVelocity' = <<0, 0, 0>>
    /\ playerOnFloor' = FALSE
    /\ currentMoveSpeed' = Physics.baseMoveSpeed
    /\ colliderField' = NoField
    /\ ticks' = 0
    /\ lastEvent' = NoEvent
    /\ detected' = "pending"
    /\ presenting' = FALSE
    /\ vrControllers' = <<>>
    /\ gamepads' = SticksAtRest
    /\ rigYaw' = 0
    /\ soundLoads' = [i \in DOMAIN soundUrls |-> "none"]
    /\ soundsPromise' = "none"
    /\ fadingSounds' = <<>>
    /\ composerCamera' = SetupComposerWithCamera(InitCam.activeCamera)
    /\ UNCHANGED soundUrls

\* the start button clicked by a user who waits for the step to settle
AwaitedStartButtonClick ==
    /\ InFlight = {}
    /\ StartButtonClick

\* Sequencing: clicks at any time, loads that succeed or fail in any order
Next ==
    \/ SetupDesktop
    \/ InitialClick
    \/ StartButtonClick
    \/ \E req \in pendingLoads : LoadResolve(req)
    \/ \E req \in pendingLoads : LoadReject(req)
    \/ PageReload

Spec == Init /\ [][Next]_vars

\* the loader answers one outstanding request: the step LoadResolve and
\* LoadReject take on pendingLoads
LoadAnswered == \E req \in pendingLoads : pendingLoads' = pendingLoads \ {req}

\* every asset load that was requested is eventually answered: the loader
\* calls onLoad or onError for each request, so requests do not stay
\* outstanding for ever
LoadsComplete == WF_pendingLoads(LoadAnswered)

SpecSettle == Init /\ [][Next]_vars /\ LoadsComplete

\* Variants: handleVariantClick at any time with any index, in a session
\* whose loads all succeed and whose user waits for each step to settle
NextVariants ==
    \/ SetupDesktop
    \/ InitialClick
    \/ AwaitedStartButtonClick
    \/ \E index \in 0..MaxVariantIndex : ToggleButtonClick(index)
    \/ \E req \in pendingLoads : LoadResolve(req)
    \/ PageReload

SpecVariants == Init /\ [][NextVariants]_vars

\* what the sequencer and the loader own: untouched by frames and key events
seqVars == <<currentScene, isVR, experienceStarted, loadedModels, colliderMeshes,
             pendingLoads, soundBuffers, activeSounds, calls, reloadRequested,
             hist, colliderField, applicationIsVR, detected, presenting,
             vrControllers, gamepads, audioVars, composerCamera>>

\* the player after a frame or a key event
CommitPlayer(p) ==
    /\ cam' = [cam EXCEPT !.position["perspective"] = p.pos]
    /\ playerVelocity' = p.vel
    /\ playerOnFloor' = p.onFloor
    /\ keys' = p.keys
    /\ currentMoveSpeed' = p.speed

\* the browser grants the pointer lock pointerLockControls.lock() asked for:
\* the controls set isLocked and the 'lock' listener hides the instructions
PointerLocked ==
    /\ cam.lockRequested /\ ~cam.isLocked
    /\ cam' = [cam EXCEPT !.isLocked = TRUE, !.lockRequested = FALSE]
    /\ ui' = HideInstructions(ui)
    /\ UNCHANGED <<seqVars, keys, playerVelocity, playerOnFloor, currentMoveSpeed,
                   ticks, lastEvent, rigYaw>>

\* the user leaves the pointer lock (Escape): the 'unlock' listener only logs
PointerUnlocked ==
    /\ cam.isLocked
    /\ cam' = [cam EXCEPT !.isLocked = FALSE]
    /\ UNCHANGED <<seqVars, ui, keys, playerVelocity, playerOnFloor,
                   currentMoveSpeed, ticks, lastEvent, rigYaw>>

\* a frame as the properties see it: the step and the pointer lock it found,
\* and what a grounding probe finds at its start
Frame ==
    [kind |-> "frame", scene |-> currentScene, locked |-> cam.isLocked,
     vr |-> applicationIsVR /\ presenting, code |-> "",
     grounded |-> LocalOnFloor(Player.pos, Meshes(colliderMeshes, colliderField))]

\* the document's keydown listener
KeyDownListener(code) ==
    /\ IF ~applicationIsVR /\ cam.isLocked
       THEN CommitPlayer(HandleKeyDown(Player, code))
       ELSE UNCHANGED <<cam, playerVelocity, playerOnFloor, keys, currentMoveSpeed>>
    /\ UNCHANGED <<seqVars, ui, ticks, rigYaw>>

\* the document's keyup listener
KeyUpListener(code) ==
    /\ IF ~applicationIsVR /\ cam.isLocked
       THEN CommitPlayer(HandleKeyUp(Player, code))
       ELSE UNCHANGED <<cam, playerVelocity, playerOnFloor, keys, currentMoveSpeed>>
    /\ UNCHANGED <<seqVars, ui, ticks, rigYaw>>

\* a key goes down or up between two frames
KeyDown(code) == KeyDownListener(code) /\ UNCHANGED lastEvent
KeyUp(code) == KeyUpListener(code) /\ UNCHANGED lastEvent

\* the same events, remembered for the properties
ObservedKeyDown(code) == KeyDownListener(code) /\ lastEvent' = KeyEvent("keydown", code)
ObservedKeyUp(code) == KeyUpListener(code) /\ lastEvent' = KeyEvent("keyup", code)

\* the rig after a frame of a VR session
CommitRig(p) ==
    /\ cam' = [cam EXCEPT !.rigPosition = p.pos]
    /\ playerVelocity' = p.vel
    /\ rigYaw' = p.yaw
    /\ UNCHANGED <<keys, playerOnFloor, currentMoveSpeed>>

AnimateInEveryStep(delta) ==
    /\ ticks < MaxTicks
    /\ IF ~applicationIsVR /\ cam.isLocked
       THEN /\ CommitPlayer(UpdatePlayerDesktop(Player, delta,
                                Meshes(colliderMeshes, colliderField)))
            /\ ticks' = ticks + 1
            /\ UNCHANGED rigYaw
       ELSE IF applicationIsVR /\ presenting
       THEN /\ CommitRig(UpdatePlayerVR(Rig, delta,
                                        Meshes(colliderMeshes, colliderField),
                                        vrControllers, gamepads))
            /\ ticks' = ticks + 1
       ELSE UNCHANGED <<cam, playerVelocity, playerOnFloor, keys, currentMoveSpeed,
                        ticks, rigYaw>>
    /\ lastEvent' = Frame
    /\ UNCHANGED <<seqVars, ui>>

\* Application.animate, the frame time being delta: the movement tick of the
\* desktop or of the VR session (orbit controls, mixers and rendering move no
\* player)
Animate(delta) ==
    /\ ticks < MaxTicks
    /\ IF currentScene = 5 /\ ~applicationIsVR /\ cam.isLocked
       THEN /\ CommitPlayer(UpdatePlayerDesktop(Player, delta,
                                Meshes(colliderMeshes, colliderField)))
            /\ ticks' = ticks + 1
            /\ UNCHANGED rigYaw
       ELSE IF currentScene = 5 /\ applicationIsVR /\ presenting
       THEN /\ CommitRig(UpdatePlayerVR(Rig, delta,
                                        Meshes(colliderMeshes, colliderField),
                                        vrControllers, gamepads))
            /\ ticks' = ticks + 1
       ELSE UNCHANGED <<cam, playerVelocity, playerOnFloor, keys, currentMoveSpeed,
                        ticks, rigYaw>>
    /\ lastEvent' = Frame
    /\ UNCHANGED <<seqVars, ui>>

\* Walkthrough: a session whose loads all succeed and whose user waits for
\* each step, with frames and key events at any time
NextPhysics ==
    \/ SetupDesktop
    \/ InitialClick
    \/ AwaitedStartButtonClick
    \/ \E req \in pendingLoads : LoadResolve(req)
    \/ PageReload
    \/ PointerLocked
    \/ PointerUnlocked
    \/ \E code \in Codes : KeyDown(code)
    \/ \E code \in Codes : KeyUp(code)
    \/ \E delta \in Deltas : Animate(delta)

SpecPhysics == Init /\ [][NextPhysics]_vars

\* Keyboard: key events of every code at any time, on either device, in a
\* session whose loads all succeed and whose user waits for each step
NextKeys ==
    \/ SetupDesktop
    \/ SetupVR
    \/ InitialClick
    \/ SessionStart
    \/ AwaitedStartButtonClick
    \/ \E req \in pendingLoads : LoadResolve(req)
    \/ PageReload
    \/ PointerLocked
    \/ PointerUnlocked
    \/ \E code \in AllCodes : ObservedKeyDown(code)
    \/ \E code \in AllCodes : ObservedKeyUp(code)

SpecKeys == Init /\ [][NextKeys]_vars

\* PhysicsManager driven directly: any sequence of handleKeyDown, handleKeyUp
\* and reset calls
HandleKeyDownCall(code) ==
    /\ CommitPlayer(HandleKeyDown(Player, code))
    /\ UNCHANGED <<seqVars, ui, ticks, lastEvent, rigYaw>>

HandleKeyUpCall(code) ==
    /\ CommitPlayer(HandleKeyUp(Player, code))
    /\ UNCHANGED <<seqVars, ui, ticks, lastEvent, rigYaw>>

ResetCall ==
    /\ CommitPlayer(Reset(Player))
    /\ UNCHANGED <<seqVars, ui, ticks, lastEvent, rigYaw>>

NextInput ==
    \/ \E code \in AllCodes : HandleKeyDownCall(code)
    \/ \E code \in AllCodes : HandleKeyUpCall(code)
    \/ ResetCall

SpecInput == Init /\ [][NextInput]_vars

\* the promise of loadAllSounds: Promise.all over promises that only resolve
SoundsSettled(loads) ==
    IF \A i \in DOMAIN loads : loads[i] # "pending" THEN "fulfilled" ELSE "pending"

\* loadInitialResources once the environment has loaded: loadAllSounds starts
\* a download for each configured slot and stores null in the others
LoadInitialResources ==
    /\ detected # "pending" /\ soundsPromise = "none"
    /\ soundLoads' = [i \in DOMAIN soundUrls |->
                         IF soundUrls[i] = None THEN "none" ELSE "pending"]
    /\ soundBuffers' = [i \in DOMAIN soundUrls |->
                           IF soundUrls[i] = None THEN FALSE ELSE soundBuffers[i]]
    /\ soundsPromise' = SoundsSettled(soundLoads')
    /\ ui' = ShowInstructions(ShowBackgroundImage(HideLoading(ui)))
    /\ UNCHANGED <<currentScene, isVR, experienceStarted, loadedModels,
                   colliderMeshes, pendingLoads, cam, activeSounds, calls,
                   reloadRequested, hist, colliderField, physVars, vrVars,
                   soundUrls, fadingSounds, composerCamera>>

\* AudioLoader calls onLoad for slot index
SoundLoaded(index) ==
    /\ soundLoads[index] = "pending"
    /\ soundLoads' = [soundLoads EXCEPT ![index] = "loaded"]
    /\ soundBuffers' = [soundBuffers EXCEPT ![index] = TRUE]
    /\ soundsPromise' = SoundsSettled(soundLoads')
    /\ UNCHANGED <<currentScene, isVR, experienceStarted, loadedModels,
                   colliderMeshes, pendingLoads, ui, cam, activeSounds, calls,
                   reloadRequested, hist, colliderField, physVars, vrVars,
                   soundUrls, fadingSounds, composerCamera>>

SoundFailedRejects(index) ==
    /\ soundLoads[index] = "pending"
    /\ soundLoads' = [soundLoads EXCEPT ![index] = "failed"]
    /\ soundsPromise' = "rejected"
    /\ UNCHANGED <<currentScene, isVR, experienceStarted, loadedModels,
                   colliderMeshes, pendingLoads, ui, cam, soundBuffers, activeSounds,
                   calls, reloadRequested, hist, colliderField, physVars, vrVars,
                   soundUrls, fadingSounds, composerCamera>>

\* AudioLoader calls onError for slot index: null is stored and the slot's
\* promise resolves
SoundFailed(index) ==
    /\ soundLoads[index] = "pending"
    /\ soundLoads' = [soundLoads EXCEPT ![index] = "failed"]
    /\ soundBuffers' = [soundBuffers EXCEPT ![index] = FALSE]
    /\ soundsPromise' = SoundsSettled(soundLoads')
    /\ UNCHANGED <<currentScene, isVR, experienceStarted, loadedModels,
                   colliderMeshes, pendingLoads, ui, cam, activeSounds, calls,
                   reloadRequested, hist, colliderField, physVars, vrVars,
                   soundUrls, fadingSounds, composerCamera>>

\* a caller of AudioManager.playAudio(index)
PlayAudioCall(index) ==
    /\ Commit(PlayAudio(State, index))
    /\ UNCHANGED <<currentScene, isVR, experienceStarted, calls, colliderField,
                   physVars, vrVars, audioVars, composerCamera>>

\* AudioManager.stopAll called from outside the sequencer
StopAllCall ==
    /\ Commit(StopAll(State))
    /\ UNCHANGED <<currentScene, isVR, experienceStarted, calls, colliderField,
                   physVars, vrVars, audioVars, composerCamera>>

\* AudioManager.fadeOut: every tracked sound is playing and has a gain node,
\* so each gets its ramp and a timer that will stop it; the list is emptied
\* while they still play
FadeOutCall ==
    /\ Len(fadingSounds) + Len(activeSounds) <= MaxFading
    /\ fadingSounds' = fadingSounds \o activeSounds
    /\ Commit([State EXCEPT !.sounds = <<>>])
    /\ UNCHANGED <<currentScene, isVR, experienceStarted, calls, colliderField,
                   physVars, vrVars, soundUrls, soundLoads, soundsPromise,
                   composerCamera>>

\* the setTimeout callback of fadeOut: sound.stop() on the i-th fading sound
FadeTimeout(i) ==
    /\ i \in DOMAIN fadingSounds
    /\ fadingSounds' = [j \in 1..(Len(fadingSounds) - 1) |->
                           IF j < i THEN fadingSounds[j] ELSE fadingSounds[j + 1]]
    /\ UNCHANGED <<currentScene, isVR, experienceStarted, loadedModels,
                   colliderMeshes, pendingLoads, ui, cam, soundBuffers,
                   activeSounds, calls, reloadRequested, hist, colliderField,
                   physVars, vrVars, soundUrls, soundLoads, soundsPromise,
                   composerCamera>>

\* Playback: the calls of the AudioManager in any order, once the sounds of
\* any catalog have been requested
NextPlayback ==
    \/ SetupDesktop
    \/ LoadInitialResources
    \/ \E index \in DOMAIN soundUrls : SoundLoaded(index)
    \/ \E index \in DOMAIN soundUrls : PlayAudioCall(index)
    \/ StopAllCall
    \/ FadeOutCall
    \/ \E i \in 1..MaxFading : FadeTimeout(i)

SpecPlayback == InitAudio /\ [][NextPlayback]_vars

\* Audio: the sound downloads of any catalog, each succeeding or failing,
\* with playAudio called at any time
NextAudio ==
    \/ SetupDesktop
    \/ SetupVR
    \/ LoadInitialResources
    \/ \E index \in DOMAIN soundUrls : SoundLoaded(index)
    \/ \E index \in DOMAIN soundUrls : SoundFailed(index)
    \/ \E index \in DOMAIN soundUrls : PlayAudioCall(index)

SpecAudio == InitAudio /\ [][NextAudio]_vars

\* the window's resize listener: the cameras and the renderer take the new
\* size and the composer's passes are rebuilt with the active camera
WindowResize ==
    /\ composerCamera' = SetupComposerWithCamera(cam.activeCamera)
    /\ UNCHANGED <<currentScene, isVR, experienceStarted, loadedModels,
                   colliderMeshes, pendingLoads, ui, cam, soundBuffers, activeSounds,
                   calls, reloadRequested, hist, colliderField, physVars, vrVars,
                   audioVars>>

\* Rendering: the variant session of a desktop page whose window is resized
\* at any time
NextRender ==
    \/ NextVariants
    \/ WindowResize

SpecRender == Init /\ [][NextRender]_vars

\* the camera configurations tried: those of steps 0 and 3, a static orbit of
\* step 4, the pointer lock of step 5 and an orbit with every default
CameraConfigs ==
    {OrbitConfig(Scene0), OrbitConfig(Scene3),
     [NoCameraFields EXCEPT
        !.type = "static_orbit", !.cameraType = Some("perspective"),
        !.pos = Some(Scene4.cameraPositions[1][1].pos),
        !.lookAt = Some(Scene4.cameraPositions[1][1].lookAt),
        !.fov = Some(Scene4.cameraPositions[1][1].fov),
        !.autoRotate = Some(FALSE), !.enablePan = Some(FALSE),
        !.enableZoom = Some(TRUE), !.enableRotate = Some(TRUE)],
     [NoCameraFields EXCEPT !.type = "pointerlock",
                            !.pos = Scene5.cameraPosition],
     [NoCameraFields EXCEPT !.type = "orbit"]}

\* a caller of CameraManager.setupCamera(config, isVR)
SetupCameraCall(config, vr) ==
    /\ cam' = SetupCamera(cam, config, vr)
    /\ UNCHANGED <<seqVars, ui, keys, playerVelocity, playerOnFloor,
                   currentMoveSpeed, ticks, lastEvent, rigYaw>>

\* CameraManager driven directly: any sequence of setupCamera calls, the
\* browser granting a requested pointer lock or the user leaving it at any
\* time
NextCamera ==
    \/ \E config \in CameraConfigs, vr \in BOOLEAN : SetupCameraCall(config, vr)
    \/ PointerLocked
    \/ PointerUnlocked

SpecCamera == Init /\ [][NextCamera]_vars

\* Sequencing with the pointer lock: clicks at any time, loads that succeed
\* or fail in any order, the browser granting a requested pointer lock and
\* the user leaving it at any time
NextLock ==
    \/ Next
    \/ PointerLocked
    \/ PointerUnlocked

SpecLock == Init /\ [][NextLock]_vars

\* Initial resources: the environment map arrives at any time of a desktop
\* session whose loads all succeed and whose user waits for each step
NextResources ==
    \/ SetupDesktop
    \/ LoadInitialResources
    \/ InitialClick
    \/ AwaitedStartButtonClick
    \/ \E req \in pendingLoads : LoadResolve(req)
    \/ PageReload

SpecResources == Init /\ [][NextResources]_vars

\* VR: a headset session whose loads all succeed and whose user waits for
\* each step, with stick movements and frames at any time
NextVR ==
    \/ SetupVR
    \/ SessionStart
    \/ SessionEnd
    \/ AwaitedStartButtonClick
    \/ \E req \in pendingLoads : LoadResolve(req)
    \/ PageReload
    \/ \E pads \in Sticks : StickMove(pads)
    \/ \E delta \in Deltas : Animate(delta)

SpecVR == Init /\ [][NextVR]_vars

\* Either device: the walkthrough of a desktop session or of a VR session
NextWalk ==
    \/ NextPhysics
    \/ NextVR

SpecWalk == Init /\ [][NextWalk]_vars

----------------------------------------------------------------------------
(* Observations used by the properties *)

Range(seq) == {seq[i] : i \in DOMAIN seq}

\* the assets in the loaded-model table
LoadedAssets == {m.asset : m \in loadedModels}

\* the loads step n has requested so far
RequestsOf(n) == {r \in hist.requested : r.step = n}

\* every load step n requested has resolved
LoadsResolved(n) ==
    /\ RequestsOf(n) # {}
    /\ \A r \in RequestsOf(n) : r \notin pendingLoads /\ r \notin hist.failed

\* no step is being set up and no loader callback is outstanding
Quiescent == InFlight = {} /\ pendingLoads = {}

\* the steps whose load routine requests assets
LoadingSteps == {0, 2, 3, 4, 5}

\* the steps whose load routine names its content panels itself (steps 2 and
\* 4 leave them to handleVariantClick, which reads the index of the moment)
PanelSteps == {0, 3, 5}

\* the left content panel such a step shows once its loads are in
StepPanel(n) ==
    CASE n = 0 -> "html_scene0_left"
      [] n = 3 -> "html_scene3_left"
      [] n = 5 -> "html_scene5_left"
      [] OTHER -> "none"

----------------------------------------------------------------------------
(* C1: after N+1 awaited runNextScene calls whose loads all succeed (no     *)
(* fault so far, nothing in flight), for N in 0..5, the loaded-model table  *)
(* holds exactly the models of step N's `models` catalog entry.             *)
C1_SequenceOrder ==
    (Faults = 0 /\ Quiescent /\ currentScene \in SceneKeys) =>
        /\ calls[currentScene].state = "fulfilled"
        /\ LoadedAssets = Range(Scenes[currentScene + 1].models)
        /\ Cardinality(loadedModels) = Len(Scenes[currentScene + 1].models)

C1_Witness ==
    /\ Faults = 0 /\ Quiescent /\ currentScene = 5
    /\ LoadedAssets = {6, 7}

(* C2: scene steps are serialized: in no reachable state are asset loads    *)
(* requested by two different steps pending at the same time, and no step   *)
(* is entered while an older step's setup is in flight.                     *)
C2_StepsSerialized ==
    /\ Cardinality({r.step : r \in pendingLoads}) <= 1
    /\ Cardinality(InFlight) <= 1

(* C3 as stated: whenever any asset load of a step rejects, runNextScene    *)
(* has rejected with that same error.                                       *)
C3_EveryRejectionRethrown ==
    \A req \in hist.failed : calls[req.step] = Rejected(req)

(* C3 as amended: the first load of a call to reject makes runNextScene     *)
(* reject with that error, a later rejection in the same call changes       *)
(* nothing; and whenever a call settles (fulfilled, rejected, or the        *)
(* restart at index 6) the loading indicator is off and the info controls   *)
(* are shown.                                                               *)
C3_FirstRejectionRethrownAfterCleanup ==
    [][/\ hist.failed \subseteq hist'.failed =>
            \A req \in hist'.failed \ hist.failed :
                IF calls[req.step].state = "pending"
                THEN calls'[req.step] = Rejected(req)
                ELSE calls'[req.step] = calls[req.step]
       /\ \A n \in DOMAIN calls :
            (calls'[n].state \in {"fulfilled", "rejected"}
                /\ calls'[n].state # calls[n].state)
            => (~ui'.sceneLoading /\ ui'.infoButtons)]_vars

C3_Witness ==
    \E n \in DOMAIN calls :
        /\ calls[n].state = "rejected"
        /\ Cardinality({r \in hist.failed : r.step = n}) = 2
        /\ ~ui.sceneLoading /\ ui.infoButtons

(* C4: in every reachable state the step index is in -1..6.                 *)
C4_IndexInRange == currentScene \in -1..6

(* C5: the call made at index 5 requests the page reload and runs no load   *)
(* routine (no unload, no load request, no camera configuration, no sound   *)
(* started), and nothing but this transition to index 6 requests a reload.  *)
C5_SeventhCallRestarts ==
    [][/\ (currentScene = 5 /\ currentScene' = 6) =>
            /\ reloadRequested'
            /\ calls'[6].state = "fulfilled"
            /\ UNCHANGED <<loadedModels, colliderMeshes, pendingLoads, cam>>
            /\ hist'.requested = hist.requested
            /\ hist'.unloads = hist.unloads
            /\ hist'.postLoad = hist.postLoad
            /\ activeSounds' = <<>>
       /\ (~reloadRequested /\ reloadRequested') =>
            (currentScene = 5 /\ currentScene' = 6)]_vars

C5_Witness ==
    /\ currentScene = 6
    /\ reloadRequested
    /\ LoadedAssets = {6, 7}

(* C6: when the setup of step N fails the step index is left as it is (at N *)
(* when the calls were awaited), and no unload or load request is issued    *)
(* except by a runNextScene call: the failed step is not retried.           *)
C6_FailureKeepsIndexNoRetry ==
    [][/\ \A n \in DOMAIN calls :
            (calls[n].state = "pending" /\ calls'[n].state = "rejected") =>
                /\ currentScene' = currentScene
                /\ hist.earlyClicks = 0 => currentScene' = n
                /\ hist'.requested = hist.requested
                /\ hist'.unloads = hist.unloads
       /\ (currentScene' = currentScene) =>
            /\ hist'.requested = hist.requested
            /\ hist'.unloads = hist.unloads]_vars

C6_Witness ==
    \E n \in LoadingSteps :
        /\ calls[n].state = "rejected"
        /\ currentScene = n
        /\ \E r \in pendingLoads : r.step = n

(* C7: once step M's setup and every stale load have settled, the loaded-   *)
(* model table holds only models requested for step M (step 1 shows the     *)
(* models step 0 requested).                                                *)
C7_NoStaleModels ==
    (Quiescent /\ currentScene \in SceneKeys
        /\ calls[currentScene].state = "fulfilled") =>
        \A m \in loadedModels :
            m.step = (IF currentScene = 1 THEN 0 ELSE currentScene)

(* C8: a step requests all its loads together, before it waits for any of   *)
(* them; its post-load actions (camera, toggles, variant, panels, audio)    *)
(* run only once every one of them has resolved, and never after one of     *)
(* them has rejected.                                                       *)
C8_PostLoadAfterAllLoads ==
    /\ \A r \in hist.requested :
          {q.asset : q \in RequestsOf(r.step)} = Range(Scenes[r.step + 1].models)
    /\ \A n \in hist.postLoad : LoadsResolved(n)
    /\ \A r \in hist.failed : r.step \notin hist.postLoad
    /\ \A n \in PanelSteps : ui.leftPanel = StepPanel(n) => LoadsResolved(n)

C8_Witness ==
    /\ 2 \in hist.postLoad
    /\ ui.leftPanel = StepPanel(3)
    /\ \E r \in hist.failed : r.step = 0
    /\ Quiescent

(* C9: whenever a step requests a load, unloadAll has emptied the loaded-   *)
(* model table and the collider-mesh table before.                          *)
C9_UnloadBeforeLoad ==
    /\ \A e \in hist.atRequest : e[2] = 0 /\ e[3] = 0
    /\ \A n \in LoadingSteps : RequestsOf(n) # {} => hist.unloads >= 1

C9_Witness ==
    /\ 2 \in hist.postLoad
    /\ \E e \in hist.atRequest : e[1] = 3
    /\ hist.unloads = 3

\* an index beyond the variants of the current step
BeyondVariants(scene, index) ==
    \/ scene = 1 /\ index >= 3
    \/ scene = 2 /\ index >= 2
    \/ scene = 4 /\ index >= 6

(* C10: handleVariantClick with an index beyond the variants of the current *)
(* step changes nothing: model visibility, camera, panels, description and  *)
(* the highlighted toggle button stay as they are.                          *)
C10_BeyondVariantsIsNoOp ==
    [][\A index \in 0..MaxVariantIndex :
          (BeyondVariants(currentScene, index) /\ ToggleButtonClick(index))
          => UNCHANGED <<loadedModels, cam, ui>>]_vars

----------------------------------------------------------------------------
\* handleVariantClick(index) called on the state the step just taken has left
ClickedAgain(index) == HandleVariantClick(State', currentScene', index, isVR')

Visible(models, id) == \E m \in models : m.id = id /\ m.visible
\* the model with this id is in the table and hidden
Hidden(models, id) == \E m \in models : m.id = id /\ ~m.visible

\* step 2 shows the pair m1+m4 and hides the pair m3+m5
View1(models) ==
    /\ Visible(models, "m1") /\ Visible(models, "m4")
    /\ Hidden(models, "m3") /\ Hidden(models, "m5")

\* step 2 shows the pair m3+m5 and hides the pair m1+m4
View2(models) ==
    /\ Hidden(models, "m1") /\ Hidden(models, "m4")
    /\ Visible(models, "m3") /\ Visible(models, "m5")

\* step 2 is the current step and its setup has completed
Step2Ready == currentScene = 2 /\ calls[2].state = "fulfilled"

(* C12: in step 2, once its setup has completed, the pairs m1+m4 and m3+m5  *)
(* are mutually exclusive after every handleVariantClick: exactly one pair  *)
(* is visible.  Index 0 shows m1+m4 and hides m3+m5; index 1 shows m3+m5,   *)
(* hides m1+m4 and shows the panels html_scene2_opt2_left/right.  Setup     *)
(* leaves the index-0 split.                                                *)
C12_Step2PairsExclusive ==
    [][/\ Step2Ready' => (View1(loadedModels') \/ View2(loadedModels'))
       /\ (~Step2Ready /\ Step2Ready') => View1(loadedModels')
       /\ (Step2Ready /\ ToggleButtonClick(0)) => View1(loadedModels')
       /\ (Step2Ready /\ ToggleButtonClick(1)) =>
             /\ View2(loadedModels')
             /\ ui'.leftPanel = "html_scene2_opt2_left"
             /\ ui'.rightPanel = "html_scene2_opt2_right"]_vars

C12_Witness ==
    /\ Step2Ready
    /\ View2(loadedModels)
    /\ ui.leftPanel = "html_scene2_opt2_left"
    /\ ui.toggles[2].selected

\* the content panels of step 4's camera i (counted from 0)
CamPanels(i) ==
    CASE i = 0 -> <<"html_scene4_cam1_left", "html_scene4_cam1_right">>
      [] i = 1 -> <<"html_scene4_cam2_left", "html_scene4_cam2_right">>
      [] i = 2 -> <<"html_scene4_cam3_left", "html_scene4_cam3_right">>
      [] i = 3 -> <<"html_scene4_cam4_left", "html_scene4_cam4_right">>
      [] i = 4 -> <<"html_scene4_cam5_left", "html_scene4_cam5_right">>
      [] i = 5 -> <<"html_scene4_cam6_left", "html_scene4_cam6_right">>

\* camera c stands at entry i of step 4's cameraPositions
AtCameraPosition(c, i) ==
    LET entry == Scene4.cameraPositions[1][i + 1]
    IN /\ c.activeCamera = "perspective"
       /\ c.position["perspective"] = entry.pos
       /\ c.lookAt["perspective"] = Some(entry.lookAt)
       /\ c.target = entry.lookAt
       /\ c.fov = entry.fov
       /\ ~c.autoRotate

C14_Step0Setup ==
    (currentScene = 0 /\ calls[0].state = "fulfilled") =>
        /\ LoadedAssets = {0, 4}
        /\ Cardinality(loadedModels) = 2
        /\ \A m \in loadedModels : m.visible
        /\ cam.activeCamera = "orthographic"
        /\ cam.orbitEnabled /\ cam.autoRotate
        /\ ~cam.enableZoom /\ ~cam.enablePan /\ ~cam.enableRotate

C14_Witness ==
    /\ currentScene = 0
    /\ calls[0].state = "fulfilled"
    /\ cam.activeCamera = "orthographic"
    /\ LoadedAssets = {0, 4}

(* C15: in a step other than 1, 2 and 4 (index -1 and the sentinel 6        *)
(* included) handleVariantClick changes nothing for any index: no model     *)
(* visibility, camera configuration, panel, description or toggle-button    *)
(* highlight.                                                               *)
C15_OtherStepsNoOp ==
    [][\A index \in 0..MaxVariantIndex :
          (currentScene \notin {1, 2, 4} /\ ToggleButtonClick(index))
          => (loadedModels' = loadedModels /\ cam' = cam /\ ui' = ui)]_vars

----------------------------------------------------------------------------
\* the player's pose and motion
Pose == <<cam.position["perspective"], playerVelocity, playerOnFloor>>

\* a frame whose movement tick runs: the walkthrough step with the pointer captured
TickRuns == currentScene = 5 /\ ~applicationIsVR /\ cam.isLocked

Abs(n) == IF n >= 0 THEN n ELSE -n

(* C16: a desktop frame changes the player's position, velocity or grounded *)
(* flag only when the step index is 5 and the pointer lock is engaged; in   *)
(* every other frame all of them are left as they are.                      *)
C16_TickOnlyInWalkthrough ==
    [][\A delta \in Deltas :
          Animate(delta) =>
              (Pose' # Pose => (currentScene = 5 /\ cam.isLocked))]_vars

C16_Witness ==
    /\ lastEvent.kind = "frame"
    /\ lastEvent.scene = 6 /\ lastEvent.locked
    /\ currentScene = 6
    /\ ticks > 0
    /\ playerVelocity[3] # 0

(* C17: a Space key-down while the grounded flag is false does not set the  *)
(* pending-jump bit; a tick whose grounding probe finds the player airborne *)
(* gives no upward impulse (its vertical velocity ends no higher than it   *)
(* began, or at zero on landing) and leaves the bit alone; vertical velocity *)
(* rises above its clamped value only in a tick whose probe finds the       *)
(* player grounded with the bit set, and then to the jump impulse.          *)
C17_JumpOnlyWhenGrounded ==
    [][/\ (KeyDown("Space") /\ ~playerOnFloor) => keys'.jump = keys.jump
       /\ \A delta \in Deltas :
            (TickRuns /\ Animate(delta)) =>
                /\ ~Frame.grounded =>
                      /\ playerVelocity'[2] <= Max(0, playerVelocity[2])
                      /\ playerVelocity'[2] # Physics.jumpVelocity
                      /\ keys'.jump = keys.jump
                /\ playerVelocity'[2] > Max(0, playerVelocity[2]) =>
                      /\ Frame.grounded /\ keys.jump
                      /\ playerVelocity'[2] = Physics.jumpVelocity
                      /\ ~keys'.jump]_vars

C17_Witness ==
    /\ lastEvent.kind = "frame" /\ lastEvent.grounded
    /\ lastEvent.scene = 5 /\ lastEvent.locked
    /\ playerVelocity[2] = Physics.jumpVelocity
    /\ ~keys.jump
    /\ ~playerOnFloor

\* the horizontal distance from pos to wall w is at least d
(* (the squares are compared; beyond 2000 the answer is plain)              *)
WallClearance(pos, w, d) ==
    LET n == Abs(w.a * pos[1] + w.b * pos[3] - w.c)
    IN n >= 2000 \/ n * n >= d * d * (w.a * w.a + w.b * w.b)

(* C18: after a movement tick that started at least playerRadius - 0.01     *)
(* away from a wall of the collision field, the player's horizontal         *)
(* distance to that wall is still at least playerRadius - 0.01.             *)
C18_WallClearanceKept ==
    [][\A delta \in Deltas :
          (TickRuns /\ Animate(delta)) =>
              \A w \in Meshes(colliderMeshes, colliderField).walls :
                  WallClearance(cam.position["perspective"], w,
                                Physics.playerRadius - 10)
                  => WallClearance(cam'.position["perspective"], w,
                                   Physics.playerRadius - 10)]_vars

(* C19: a player whose head starts a tick at least playerHeight above a     *)
(* floor surface of the collision field ends the tick with its head at      *)
(* least playerHeight above that surface.                                   *)
C19_FloorNeverPenetrated ==
    [][\A delta \in Deltas :
          (TickRuns /\ Animate(delta)) =>
              \A f \in Meshes(colliderMeshes, colliderField).floors :
                  cam.position["perspective"][2] >= f + Physics.playerHeight
                  => cam'.position["perspective"][2] >= f + Physics.playerHeight]_vars

(* C20: in a tick with no directional key held, each horizontal velocity    *)
(* component that is not zero becomes strictly smaller in magnitude.        *)
C20_FrictionDecreases ==
    [][\A delta \in Deltas :
          (TickRuns /\ Animate(delta)
             /\ ~keys.forward /\ ~keys.backward /\ ~keys.left /\ ~keys.right) =>
              /\ playerVelocity[1] # 0 =>
                    Abs(playerVelocity'[1]) < Abs(playerVelocity[1])
              /\ playerVelocity[3] # 0 =>
                    Abs(playerVelocity'[3]) < Abs(playerVelocity[3])]_vars

\* a frame finds the movement tick of the desktop or of the VR session due
MovementTick ==
    /\ currentScene = 5
    /\ \/ ~applicationIsVR /\ cam.isLocked
       \/ applicationIsVR /\ presenting

(* C21: a movement tick, of the desktop or of the VR session, changes       *)
(* neither the collision field nor the forward, backward, left, right and   *)
(* sprint flags; the jump flag can only go from set to clear, and only in   *)
(* a tick that consumes the jump (the vertical velocity becomes the jump    *)
(* velocity).                                                               *)
C21_TickKeepsFieldAndKeys ==
    [][(MovementTick /\ ticks' = ticks + 1) =>
          /\ colliderMeshes' = colliderMeshes
          /\ colliderField' = colliderField
          /\ \A k \in {"forward", "backward", "left", "right", "sprint"} :
                keys'[k] = keys[k]
          /\ keys'.jump => keys.jump
          /\ (keys.jump /\ ~keys'.jump) =>
                playerVelocity'[2] = Physics.jumpVelocity]_vars

C21_Witness ==
    /\ lastEvent.kind = "frame" /\ lastEvent.scene = 5 /\ lastEvent.locked
    /\ ticks > 0
    /\ playerVelocity[2] = Physics.jumpVelocity
    /\ ~keys.jump /\ keys.forward

\* step 3 has been set up and is the current step
Step3Ready == currentScene = 3 /\ calls[3].state = "fulfilled"

(* C25: once step 3 is set up, the loaded-model table holds exactly the     *)
(* catalog's "Ghost" model and its interior section model ("Interior        *)
(* City"), both visible, no toggle button is displayed and auto-rotate is   *)
(* off.                                                                     *)
C25_Step3GhostAndInterior ==
    Step3Ready =>
        /\ {AssetNames[m.asset] : m \in loadedModels} = {"Ghost", "Interior City"}
        /\ \A m \in loadedModels : m.visible
        /\ \A i \in 1..ToggleCount : ~ui.toggles[i].display
        /\ ~cam.autoRotate

(* C26: the transition from step 0 to step 1 unloads nothing and requests   *)
(* no load, and leaves the loaded-model table with its visibilities as it   *)
(* was; it enables user rotation and zoom and disables pan on the camera,   *)
(* displays the three toggle buttons of step 1 and shows the content        *)
(* panels of the first toggle.                                              *)
C26_Step1ReusesModels ==
    [][(currentScene = 0 /\ currentScene' = 1) =>
          /\ hist'.unloads = hist.unloads
          /\ hist'.requested = hist.requested
          /\ pendingLoads' = pendingLoads
          /\ loadedModels' = loadedModels
          /\ cam'.enableRotate /\ cam'.enableZoom /\ ~cam'.enablePan
          /\ \A i \in 1..ToggleCount : ui'.toggles[i].display <=> i <= 3
          /\ <<ui'.toggles[1].text, ui'.toggles[2].text, ui'.toggles[3].text>>
               = <<"Surrounding", "Transportation", "Units">>
          /\ ui'.leftPanel = "html_scene1_opt1_left"
          /\ ui'.rightPanel = "html_scene1_opt1_right"]_vars

C26_Witness ==
    /\ currentScene = 1 /\ calls[1].state = "fulfilled"
    /\ LoadedAssets = {0, 4}
    /\ \A m \in loadedModels : m.step = 0
    /\ ui.toggles[3].display
    /\ ui.leftPanel = "html_scene1_opt1_left"

\* the flag handleKeyDown sets for a movement key
KeyFlag(code) ==
    CASE code = "KeyW" -> "forward"
      [] code = "KeyS" -> "backward"
      [] code = "KeyA" -> "left"
      [] code = "KeyD" -> "right"
      [] code = "ShiftLeft" -> "sprint"

MovementCodes == {"KeyW", "KeyS", "KeyA", "KeyD", "ShiftLeft"}

(* C28: after a key-down of W, A, S, D or ShiftLeft the flag of the key is  *)
(* set and after a key-up it is clear, whatever the step, the presentation  *)
(* mode and the state of the pointer lock.                                  *)
C28_MovementKeysAlwaysRecorded ==
    lastEvent.code \in MovementCodes =>
        /\ lastEvent.kind = "keydown" => keys[KeyFlag(lastEvent.code)]
        /\ lastEvent.kind = "keyup" => ~keys[KeyFlag(lastEvent.code)]

(* C27: after any sequence of handleKeyDown, handleKeyUp and reset calls    *)
(* the move speed is baseMoveSpeed * sprintMultiplier exactly when the      *)
(* sprint flag is set, and baseMoveSpeed otherwise.                         *)
C27_SpeedFollowsSprint ==
    currentMoveSpeed =
        IF keys.sprint THEN Physics.baseMoveSpeed * Physics.sprintMultiplier
        ELSE Physics.baseMoveSpeed

\* a frame finds the movement tick of the VR session due
VRTickRuns == currentScene = 5 /\ applicationIsVR /\ presenting

\* no wall of the field is within playerRadius of pos along the four rays
NoWallInReach(pos, field) ==
    \A i \in DOMAIN CheckDirections :
        \A d \in WallHits(pos, CheckDirections[i], field) : d >= Physics.playerRadius

(* C23: in a VR tick the left stick moves and the right stick turns: a      *)
(* deflected left stick changes the horizontal velocity of a rig at rest    *)
(* (no wall being in reach), and a right stick pushed sideways by more      *)
(* than 0.1 rotates the rig.                                                *)
C23_LeftMovesRightTurns ==
    [][(VRTickRuns /\ ticks' = ticks + 1) =>
          /\ ( /\ gamepads.left.axes2 # 0 \/ gamepads.left.axes3 # 0
               /\ playerVelocity[1] = 0 /\ playerVelocity[3] = 0
               /\ NoWallInReach(cam'.rigPosition,
                                Meshes(colliderMeshes, colliderField)) )
             => (playerVelocity'[1] # 0 \/ playerVelocity'[3] # 0)
          /\ Abs(gamepads.right.axes2) > 100 => rigYaw' # rigYaw]_vars

(* C24: a VR tick never reads or clears the jump flag and gives no upward   *)
(* impulse: the key flags are left alone, the vertical velocity never rises *)
(* above the larger of zero and its value before the tick, and a vertical   *)
(* velocity that was at most zero is at most zero afterwards.               *)
C24_NoJumpInVR ==
    [][(VRTickRuns /\ ticks' = ticks + 1) =>
          /\ keys' = keys
          /\ playerVelocity'[2] <= Max(0, playerVelocity[2])
          /\ playerVelocity[2] <= 0 => playerVelocity'[2] <= 0]_vars

C24_Witness ==
    /\ lastEvent.kind = "frame" /\ lastEvent.vr /\ lastEvent.scene = 5
    /\ ticks > 1
    /\ playerVelocity[2] < 0
    /\ cam.rigPosition[2] < 0

(* C30: the presentation mode the sequencer uses is the one the             *)
(* application detected, and in VR no pointer lock is requested or held.    *)
C30_SequencerUsesDetectedMode ==
    /\ detected # "pending" => isVR = applicationIsVR
    /\ applicationIsVR => ~cam.lockRequested /\ ~cam.isLocked

(* C29: whenever the setup of a step has failed, the caller of that         *)
(* runNextScene call has received the failure and surfaced it, whichever    *)
(* the call site.                                                           *)
C29_FailureSurfacedByCaller ==
    \A n \in DOMAIN calls : calls[n].state = "rejected" => n \in hist.surfaced

(* C22: loadAllSounds never fails: its promise is never rejected and is     *)
(* fulfilled exactly when no sound load is outstanding; from then on every  *)
(* unconfigured or failed slot holds no buffer and every loaded slot holds  *)
(* one; playAudio starts a sound only on a slot that holds a buffer.        *)
C22_SoundLoadingBestEffort ==
    /\ soundsPromise # "rejected"
    /\ soundsPromise # "none" =>
          /\ soundsPromise = "fulfilled"
                <=> \A i \in DOMAIN soundLoads : soundLoads[i] # "pending"
          /\ \A i \in DOMAIN soundUrls :
                /\ (soundUrls[i] = None \/ soundLoads[i] = "failed")
                      => ~soundBuffers[i]
                /\ soundLoads[i] = "loaded" => soundBuffers[i]
    /\ \A i \in DOMAIN activeSounds : soundBuffers[activeSounds[i]]

C22_Witness ==
    /\ soundsPromise = "fulfilled"
    /\ soundUrls[0] = None
    /\ soundLoads[1] = "failed" /\ soundLoads[2] = "loaded"
    /\ activeSounds = <<2>>

(* C37: handleVariantClick never changes the step index and neither unloads *)
(* nor requests a load, in any step and for any index; the step index of a  *)
(* page changes only by the increment runNextScene makes (a reloaded page   *)
(* starts again from -1).                                                   *)
C37_VariantClickKeepsStep ==
    [][/\ \A index \in 0..MaxVariantIndex :
            ToggleButtonClick(index) =>
                /\ currentScene' = currentScene
                /\ hist'.unloads = hist.unloads
                /\ hist'.requested = hist.requested
                /\ pendingLoads' = pendingLoads
                /\ LoadedAssets' = LoadedAssets
       /\ currentScene' # currentScene =>
             \/ currentScene' = currentScene + 1 /\ calls'[currentScene'] # NotCalled
             \/ reloadRequested /\ currentScene' = -1]_vars

C37_Witness ==
    /\ currentScene = 1 /\ calls[1].state = "fulfilled"
    /\ ui.leftPanel = "html_scene1_opt3_left"
    /\ ui.toggles[3].selected
    /\ LoadedAssets = {0, 4}
    /\ \A r \in hist.requested : r.step = 0

(* C32: while the setup of some step is in flight the scene-loading         *)
(* indicator is on and the info controls are hidden.                        *)
C32_IndicatorOnWhileInFlight ==
    InFlight # {} => (ui.sceneLoading /\ ~ui.infoButtons)

\* the left content panels step n's load routine or its variant clicks show
StepLeftPanels(n) ==
    CASE n = 0 -> {"html_scene0_left"}
      [] n = 1 -> {"html_scene1_opt1_left", "html_scene1_opt2_left",
                   "html_scene1_opt3_left"}
      [] n = 2 -> {"html_scene2_opt1_left", "html_scene2_opt2_left"}
      [] n = 3 -> {"html_scene3_left"}
      [] n = 4 -> {CamPanels(i)[1] : i \in 0..5}
      [] n = 5 -> {"html_scene5_left"}

\* camera c is configured as step n configures it
StepCamera(c, n) ==
    CASE n \in 0..3 ->
            /\ c.activeCamera = "orthographic" /\ c.orbitEnabled
            /\ c.position["orthographic"] = Scenes[n + 1].cameraPosition[1]
            /\ c.target = Scenes[n + 1].cameraLookAt[1]
            /\ c.autoRotate = Scenes[n + 1].autoRotate[1]
            /\ c.enableRotate = Scenes[n + 1].enableUserRotation[1]
            /\ c.enableZoom = Scenes[n + 1].enableZoom[1]
      [] n = 4 -> \E i \in 0..5 : AtCameraPosition(c, i)
      [] n = 5 ->
            /\ c.activeCamera = "perspective" /\ ~c.orbitEnabled
            /\ c.position["perspective"] = Scene5.cameraPosition[1]

(* C31: whenever no step setup is in flight and the current step N in 0..5  *)
(* has been set up successfully, the camera configuration, the displayed    *)
(* toggle buttons and the content panels are those of step N.               *)
C31_CurrentStepOwnsView ==
    (InFlight = {} /\ currentScene \in 0..5
        /\ calls[currentScene].state = "fulfilled") =>
        /\ StepCamera(cam, currentScene)
        /\ \A i \in 1..ToggleCount :
              ui.toggles[i].display
                 <=> i <= Len(OrElse(Scenes[currentScene + 1].buttons, <<>>))
        /\ ui.leftPanel \in StepLeftPanels(currentScene)

(* C34: outside VR presentation the camera of the composer's render pass    *)
(* and SSAO pass is the active camera, after any sequence of setupCamera    *)
(* calls and resize events.                                                 *)
C34_ComposerUsesActiveCamera ==
    ~presenting => composerCamera = cam.activeCamera

(* C35: after any sequence of setupCamera calls the orbit controller is     *)
(* never enabled while the pointer lock is held or requested; a call with   *)
(* an 'orbit' or 'static_orbit' configuration leaves orbit enabled and the  *)
(* pointer lock released, a call with a 'pointerlock' configuration leaves  *)
(* orbit disabled, auto-rotate off and the perspective camera active.       *)
C35_ControllersExclusive ==
    [][/\ cam'.orbitEnabled => (~cam'.isLocked /\ ~cam'.lockRequested)
       /\ \A config \in CameraConfigs, vr \in BOOLEAN :
            SetupCameraCall(config, vr) =>
                /\ config.type \in {"orbit", "static_orbit"} =>
                      cam'.orbitEnabled /\ ~cam'.isLocked /\ ~cam'.lockRequested
                /\ config.type = "pointerlock" =>
                      /\ ~cam'.orbitEnabled /\ ~cam'.autoRotate
                      /\ cam'.activeCamera = "perspective"]_vars

(* C36: the pointer lock is requested only after both loads of step 5, the  *)
(* interior model and the collider model, have resolved: whenever the step  *)
(* index is 5 and the pointer lock is requested or held, the collider-mesh  *)
(* table holds the meshes of step 5's collider, so a desktop movement tick  *)
(* never runs against an empty or loading collision field.                  *)
C36_LockOnlyAfterCollider ==
    /\ (cam.lockRequested \/ cam.isLocked) => LoadsResolved(5)
    /\ (currentScene = 5 /\ (cam.lockRequested \/ cam.isLocked)) =>
          /\ colliderMeshes = {7}
          /\ colliderField \in Fields
          /\ \A r \in pendingLoads : r.step # 5

C36_Witness ==
    /\ currentScene = 5 /\ cam.isLocked
    /\ colliderMeshes = {7}
    /\ hist.earlyClicks > 0

(* C33: once the current step has been set up and no setup is in flight,    *)
(* the background image and the instructions are hidden, whenever the       *)
(* initial resources finish loading.                                        *)
C33_BackgroundStaysHidden ==
    (InFlight = {} /\ currentScene \in 0..5
        /\ calls[currentScene].state = "fulfilled") =>
        (~ui.backgroundImg /\ ~ui.instructions)

\* a tick's floor snap has left the rig at rest 0.05 above the floor below it
RigRestsOnFloor ==
    LET hits == FloorHits(cam.rigPosition, Meshes(colliderMeshes, colliderField))
    IN /\ VRTickRuns /\ ticks > 0
       /\ playerVelocity[2] = 0
       /\ hits # {} /\ Minimum(hits) = 50

(* C39: in VR a rig that a tick's floor snap has left at rest on a floor    *)
(* is found on the floor by the initial probe of the next tick, which       *)
(* therefore adds no gravity to its vertical velocity and keeps its height. *)
C39_RestingRigGrounded ==
    RigRestsOnFloor =>
        \A delta \in Deltas :
            LET p == VRVerticalMovement(Rig, delta,
                                        Meshes(colliderMeshes, colliderField))
            IN p.vel[2] = 0 /\ p.pos[2] = cam.rigPosition[2]

\* the sounds that are playing: the tracked ones (each was started by
\* playAudio and loops) and the ones fadeOut released, until their timers fire
PlayingSounds == Len(activeSounds) + Len(fadingSounds)

C38_EveryCallSettles ==
    /\ []<>(InFlight = {})
    /\ [][\A n \in 0..MaxScene :
            /\ (calls'[n] # calls[n] /\ calls'[n].state \in {"fulfilled", "rejected"})
                  => ~ui'.sceneLoading
            /\ (n > 5 /\ calls'[n] # calls[n] /\ calls'[n] # NotCalled)
                  => /\ calls'[n].state = "fulfilled"
                     /\ pendingLoads' = pendingLoads]_vars

C38_Witness ==
    /\ currentScene = 6 /\ reloadRequested
    /\ \A n \in 0..6 : calls[n].state = "fulfilled"
    /\ ~ui.sceneLoading
    /\ pendingLoads = {}

====
